---- MODULE Spec2Model ----
(***************************************************************************)
(* Verification model of yae-modernize-tailwind: the rewrite rules over    *)
(* class tokens (sizeConversion, createAxisConversion, gapConversion,      *)
(* colorOpacityConversion on top of SafeClassProcessor / ClassUtils and    *)
(* the pattern registry) and the file scheduler (ParallelProcessor,        *)
(* FileWorker, ErrorHandler).                                              *)
(*                                                                         *)
(* Text is a sequence of atoms.  An atom is a run of characters that holds *)
(* none of the separator characters the code looks at; the separators      *)
(* "-", ":", "/", " ", "'" and the attribute opener "class=" are atoms of  *)
(* their own.  "sm:w-4" is <<"sm", ":", "w", "-", "4">>.  Offsets count    *)
(* atoms, 0-based and half-open like the code's startIndex / endIndex.     *)
(***************************************************************************)
EXTENDS Integers, Sequences, FiniteSets, TLC

VARIABLES
    \* ---- scheduler (Spec): one call of processFiles / processFilesSequential ----
    mode,            \* "parallel" (processFiles) | "sequential" (processFilesSequential)
    files,           \* the input path list
    conversions,     \* the requested rule names, in the caller's order
    maxWorkers,      \* options.maxWorkers
    chunkSize,       \* options.chunkSize
    plan,            \* environment: which operation fails for which path
    counts0,         \* ErrorHandler.errorCounts at the time of the call
    disk,            \* file system: path -> content
    errorCounts,     \* ErrorHandler.errorCounts
    processedFiles,  \* ErrorHandler.processedFiles
    batch,           \* processFiles: i, the chunk index the current batch starts at;
                     \* processFilesSequential: i, the index of the current file
    workers,         \* the processChunk calls in flight, one per chunk of the batch
    results,         \* the ProcessingResult list being built
    outcome,         \* "pending" | "returned" | "rejected": how the call ended
    written,         \* the paths fs.writeFile has written during the call
    waitMs,          \* waitForMemoryRelease: <<>> when not waiting, else <<ms since startTime>>
    progress,        \* the calls of options.progressCallback so far: (processed, total, currentFile)
    totalFiles,     \* ErrorHandler.totalFiles
    lastIndex,      \* pattern.lastIndex of the quoted class pattern, a module-level object every task scans with
    currentFile,    \* ErrorHandler.currentFile: <<>> when undefined, else <<the path>>
    loggingEnabled, \* ErrorHandler.loggingConfig?.enabled
    errorReports,   \* the ErrorReports created so far: error.context.file and context.currentFile
    \* ---- rule engine (RuleSpec) ----
    rstage,        \* "input" | "once" | "twice": how often the rule was applied
    rule,          \* name of the rule under study (a key of CONVERSIONS)
    rin,           \* the content handed to the rule
    rout1,         \* ConversionResult of rule(rin)
    rout2,         \* ConversionResult of rule(rout1.newContent)
    \* ---- pattern registry (PatternSpec): one call of applyClassReplacements ----
    pcontent,      \* the content argument
    preplacements, \* the replacements argument, in the order supplied
    pnew,          \* <<>> before the call, <<the returned content>> after it
    \* ---- pattern registry (MatchSpec): one call of extractAllClassMatches ----
    pfile,         \* the filePath argument (pcontent is the content argument)
    pmatches,      \* <<>> before the call, <<the returned list>> after it
    \* ---- SafeClassProcessor (ProcessorSpec): one processor object ----
    cproc,         \* the object: originalClasses, marks, additions
    cintents,      \* the intents recorded since construction or the last reset
    ccalls,        \* the calls of ClassUtils.replacePair so far, each with its answer
    cstring,       \* <<>>, or <<the classString handed to ClassUtils.createProcessor>>
    cresult        \* <<>>, or <<what execute returned>> when nothing was marked since

rvars == <<rstage, rule, rin, rout1, rout2>>

pvars == <<pcontent, preplacements, pnew, pfile, pmatches>>

cvars == <<cproc, cintents, ccalls, cstring, cresult>>

svars == <<mode, files, conversions, maxWorkers, chunkSize, plan, counts0, disk,
           errorCounts, processedFiles, batch, workers, results, outcome,
           written,
           waitMs,
           progress,
           totalFiles,
           lastIndex,
           currentFile,
           loggingEnabled,
           errorReports>>

vars == <<mode, files, conversions, maxWorkers, chunkSize, plan, counts0, disk,
          errorCounts, processedFiles, batch, workers, results, outcome, written, waitMs, progress, totalFiles, lastIndex, currentFile, loggingEnabled, errorReports,
          rstage, rule, rin, rout1, rout2,
          pcontent, preplacements, pnew, pfile, pmatches,
          cproc, cintents, ccalls, cstring, cresult>>

----------------------------------------------------------------------------
(* Bounds of the model *)

\* most tokens in one class attribute of the contents enumerated
MaxTokens == 4

----------------------------------------------------------------------------
(* Text helpers: what String.prototype.split / join / startsWith / indexOf *)
(* do, on atom sequences.                                                  *)

RECURSIVE SplitFrom(_, _, _, _)
\* s.split(sep), scanning from position i with the current piece cur
SplitFrom(s, sep, i, cur) ==
    IF i > Len(s) THEN <<cur>>
    ELSE IF s[i] = sep THEN <<cur>> \o SplitFrom(s, sep, i + 1, <<>>)
    ELSE SplitFrom(s, sep, i + 1, Append(cur, s[i]))

Split(s, sep) == SplitFrom(s, sep, 1, <<>>)

RECURSIVE Join(_, _)
\* parts.join(sep)
Join(parts, sep) ==
    IF Len(parts) = 0 THEN <<>>
    ELSE IF Len(parts) = 1 THEN parts[1]
    ELSE parts[1] \o <<sep>> \o Join(Tail(parts), sep)

StartsWith(s, p) == Len(s) >= Len(p) /\ SubSeq(s, 1, Len(p)) = p

Includes(s, a) == \E i \in 1..Len(s) : s[i] = a

\* Array.prototype.indexOf, 0-based, -1 when absent
IndexOf(arr, x) ==
    IF \E i \in 1..Len(arr) : arr[i] = x
    THEN (CHOOSE i \in 1..Len(arr) : arr[i] = x /\ \A j \in 1..(i - 1) : arr[j] # x) - 1
    ELSE -1

RECURSIVE Filter(_, _)
\* Array.prototype.filter with the predicate given as a set of kept values
Filter(arr, keep) ==
    IF Len(arr) = 0 THEN <<>>
    ELSE IF arr[1] \in keep THEN <<arr[1]>> \o Filter(Tail(arr), keep)
    ELSE Filter(Tail(arr), keep)

\* classString.split(' ').filter((c) => c.length > 0)
SplitClasses(classString) ==
    LET pieces == Split(classString, " ")
    IN  Filter(pieces, {pieces[i] : i \in 1..Len(pieces)} \ {<<>>})

----------------------------------------------------------------------------
(* Token model *)

\* parseClassName: variants is everything up to and including the last ':'
parseClassName(fullClass) ==
    LET parts     == Split(fullClass, ":")
        className == parts[Len(parts)]
        rest      == SubSeq(parts, 1, Len(parts) - 1)
        variants  == Join(rest, ":") \o (IF Len(rest) > 0 THEN <<":">> ELSE <<>>)
    IN  [variants |-> variants, className |-> className, original |-> fullClass]

\* ClassUtils.extractValue: the part after the last '-', null (here <<>>)
\* when the name has no '-'; a value is returned boxed, <<value>>
extractValue(className) ==
    LET parts == Split(className, "-")
    IN  IF Len(parts) > 1 THEN <<parts[Len(parts)]>> ELSE <<>>

\* haveSameValue without the comparison of the two values
haveSameValue_anyValue(class1, class2) ==
    extractValue(class1) # <<>> /\ extractValue(class2) # <<>>

\* ClassUtils.haveSameValue
haveSameValue(class1, class2) ==
    LET value1 == extractValue(class1)
        value2 == extractValue(class2)
    IN  value1 # <<>> /\ value1 = value2

\* groupByVariant that puts every token into one group, under the first variant
groupByVariant_oneGroup(classInfos) ==
    IF Len(classInfos) = 0 THEN <<>>
    ELSE <<[variant |-> classInfos[1].variants, group |-> classInfos]>>

\* ClassUtils.groupByVariant: the variants in the order a for-in loop over
\* the record visits them (first appearance), each with its members in order
groupByVariant(classInfos) ==
    LET isFirst(i) == \A j \in 1..(i - 1) : classInfos[j].variants # classInfos[i].variants
        firsts     == {i \in 1..Len(classInfos) : isFirst(i)}
        RECURSIVE keysFrom(_)
        keysFrom(i) == IF i > Len(classInfos) THEN <<>>
                       ELSE IF i \in firsts THEN <<classInfos[i].variants>> \o keysFrom(i + 1)
                       ELSE keysFrom(i + 1)
        keys       == keysFrom(1)
        sameVariant(v) == {classInfos[i] : i \in {k \in 1..Len(classInfos) : classInfos[k].variants = v}}
    IN  [k \in 1..Len(keys) |->
            [variant |-> keys[k], group |-> Filter(classInfos, sameVariant(keys[k]))]]

\* ClassUtils.findClassesWithPrefix: className.startsWith(`${prefix}-`)
findClassesWithPrefix(classes, prefix) ==
    Filter(classes, {classes[i] : i \in {k \in 1..Len(classes) :
                         StartsWith(classes[k].className, prefix \o <<"-">>)}})

----------------------------------------------------------------------------
(* SafeClassProcessor: marks against a snapshot, materialised by execute *)

\* new SafeClassProcessor(classes)
NewProcessor(classes) == [originalClasses |-> classes, marks |-> <<>>, additions |-> <<>>]

\* ClassUtils.createProcessor
createProcessor(classString) == NewProcessor(SplitClasses(classString))

\* a markForRemoval that targets the first occurrence not yet marked
markForRemoval_nextUnmarked(proc, className) ==
    LET free == {i \in 1..Len(proc.originalClasses) :
                    /\ proc.originalClasses[i] = className
                    /\ \A k \in 1..Len(proc.marks) : proc.marks[k].index # i - 1}
    IN  IF free = {} THEN [proc |-> proc, ok |-> FALSE]
        ELSE [proc |-> [proc EXCEPT !.marks = Append(@,
                           [index |-> (CHOOSE i \in free : \A j \in free : i <= j) - 1,
                            operation |-> "remove",
                            original |-> className, replacement |-> <<>>])],
              ok |-> TRUE]

\* SafeClassProcessor.markForRemoval: [proc, ok]
markForRemoval(proc, className) ==
    LET index == IndexOf(proc.originalClasses, className)
    IN  IF index = -1 THEN [proc |-> proc, ok |-> FALSE]
        ELSE [proc |-> [proc EXCEPT !.marks = Append(@,
                           [index |-> index, operation |-> "remove",
                            original |-> className, replacement |-> <<>>])],
              ok |-> TRUE]

\* SafeClassProcessor.markForReplacement: [proc, ok]
markForReplacement(proc, original, replacement) ==
    LET index == IndexOf(proc.originalClasses, original)
    IN  IF index = -1 THEN [proc |-> proc, ok |-> FALSE]
        ELSE [proc |-> [proc EXCEPT !.marks = Append(@,
                           [index |-> index, operation |-> "replace",
                            original |-> original, replacement |-> replacement])],
              ok |-> TRUE]

\* SafeClassProcessor.addClass
addClass(proc, className) == [proc EXCEPT !.additions = Append(@, className)]

\* SafeClassProcessor.reset
reset(proc) == [proc EXCEPT !.marks = <<>>, !.additions = <<>>]

\* a find that takes the mark recorded last for position i
FindMark_last(marks, i) ==
    IF \E k \in 1..Len(marks) : marks[k].index = i
    THEN <<marks[CHOOSE k \in 1..Len(marks) :
                   marks[k].index = i /\ \A j \in (k + 1)..Len(marks) : marks[j].index # i]>>
    ELSE <<>>

\* marks.find((m) => m.index === i): the first mark recorded for position i,
\* boxed; <<>> when there is none
FindMark(marks, i) ==
    IF \E k \in 1..Len(marks) : marks[k].index = i
    THEN <<marks[CHOOSE k \in 1..Len(marks) :
                   marks[k].index = i /\ \A j \in 1..(k - 1) : marks[j].index # i]>>
    ELSE <<>>

RECURSIVE ExecuteFrom(_, _)
\* the loop of execute over the snapshot, from 0-based position i
ExecuteFrom(proc, i) ==
    IF i >= Len(proc.originalClasses) THEN <<>>
    ELSE LET mark == FindMark(proc.marks, i)
             here == IF mark = <<>> THEN <<proc.originalClasses[i + 1]>>
                     ELSE IF mark[1].operation = "remove" THEN <<>>
                     ELSE IF mark[1].replacement # <<>> THEN <<mark[1].replacement>>
                     ELSE <<>>
         IN  here \o ExecuteFrom(proc, i + 1)

\* execute that puts the added classes in front of the kept ones
execute_additionsFirst(proc) ==
    [newClasses |-> proc.additions \o ExecuteFrom(proc, 0),
     changed    |-> Len(proc.marks) > 0 \/ Len(proc.additions) > 0]

\* execute whose flag tells whether the list differs from the snapshot
execute_changedIfDifferent(proc) ==
    [newClasses |-> ExecuteFrom(proc, 0) \o proc.additions,
     changed    |-> ExecuteFrom(proc, 0) \o proc.additions # proc.originalClasses]

\* SafeClassProcessor.execute
execute(proc) ==
    [newClasses |-> ExecuteFrom(proc, 0) \o proc.additions,
     changed    |-> Len(proc.marks) > 0 \/ Len(proc.additions) > 0]

\* a replacePair that leaves the processor as it is when one removal fails
replacePair_noReset(proc, class1, class2, replacement) ==
    LET r1 == markForRemoval(proc, class1)
        r2 == markForRemoval(r1.proc, class2)
    IN  IF r1.ok /\ r2.ok THEN [proc |-> addClass(r2.proc, replacement), ok |-> TRUE]
        ELSE [proc |-> r2.proc, ok |-> FALSE]

\* ClassUtils.replacePair: [proc, ok]
replacePair(proc, class1, class2, replacement) ==
    LET r1 == markForRemoval(proc, class1)
        r2 == markForRemoval(r1.proc, class2)
    IN  IF r1.ok /\ r2.ok THEN [proc |-> addClass(r2.proc, replacement), ok |-> TRUE]
        ELSE IF r1.ok \/ r2.ok THEN [proc |-> reset(r2.proc), ok |-> FALSE]
        ELSE [proc |-> r2.proc, ok |-> FALSE]

----------------------------------------------------------------------------
(* Pattern registry: locating class attributes and splicing them back      *)

\* extractQuoted: the text between the first two quotes of the match
extractQuoted(match) ==
    LET q1 == CHOOSE i \in 1..Len(match) :
                  match[i] = "'" /\ \A j \in 1..(i - 1) : match[j] # "'"
        q2 == CHOOSE i \in (q1 + 1)..Len(match) :
                  match[i] = "'" /\ \A j \in (q1 + 1)..(i - 1) : match[j] # "'"
    IN  SubSeq(match, q1 + 1, q2 - 1)

\* reconstructHTML: class=<quote><classes joined by ' '><quote>
reconstructHTML(classes, original) ==
    <<"class=", "'">> \o Join(classes, " ") \o <<"'">>

RECURSIVE ScanQuoted(_, _)
\* the exec loop of the quoted class pattern /class\s*=\s*["']([^"']*)["']/g
\* from 1-based position i: an opener, a quote, text without quotes, a quote
ScanQuoted(content, i) ==
    IF i + 2 > Len(content) THEN <<>>
    ELSE IF /\ content[i] = "class="
            /\ content[i + 1] = "'"
            /\ \E j \in (i + 2)..Len(content) : content[j] = "'"
    THEN LET j == CHOOSE k \in (i + 2)..Len(content) :
                      content[k] = "'" /\ \A m \in (i + 2)..(k - 1) : content[m] # "'"
             text == SubSeq(content, i, j)
         IN  <<[match |-> text, classes |-> extractQuoted(text),
                startIndex |-> i - 1, endIndex |-> j]>> \o ScanQuoted(content, j + 1)
    ELSE ScanQuoted(content, i + 1)

\* extractAllClassMatches for an .html path: the quoted and the multi-line
\* class patterns find the same occurrences, the second pass is dropped by
\* the seen-set, and the [class] / [ngClass] patterns find none in the
\* contents enumerated; the result is sorted by startIndex
extractAllClassMatches(content, filePath) == ScanQuoted(content, 1)

RECURSIVE lastIndexAfterLoop_breaksAtMatch(_, _)
\* an exec loop left at its first match
lastIndexAfterLoop_breaksAtMatch(content, i) ==
    IF i + 2 > Len(content) THEN 0
    ELSE IF /\ content[i] = "class="
            /\ content[i + 1] = "'"
            /\ \E j \in (i + 2)..Len(content) : content[j] = "'"
    THEN CHOOSE k \in (i + 2)..Len(content) :
             content[k] = "'" /\ \A m \in (i + 2)..(k - 1) : content[m] # "'"
    ELSE lastIndexAfterLoop_breaksAtMatch(content, i + 1)

RECURSIVE lastIndexAfterLoop(_, _)
\* pattern.lastIndex when the exec loop of the quoted class pattern, at
\* 1-based position i, has run to its end: exec sets it to the end of every
\* match and to 0 when it finds no further match and returns null
lastIndexAfterLoop(content, i) ==
    IF i + 2 > Len(content) THEN 0
    ELSE IF /\ content[i] = "class="
            /\ content[i + 1] = "'"
            /\ \E j \in (i + 2)..Len(content) : content[j] = "'"
    THEN LET j == CHOOSE k \in (i + 2)..Len(content) :
                      content[k] = "'" /\ \A m \in (i + 2)..(k - 1) : content[m] # "'"
         IN  lastIndexAfterLoop(content, j + 1)
    ELSE lastIndexAfterLoop(content, i + 1)

RECURSIVE InsertByStartDesc(_, _)
InsertByStartDesc(sorted, r) ==
    IF Len(sorted) = 0 THEN <<r>>
    ELSE IF sorted[1].original.startIndex >= r.original.startIndex
         THEN <<sorted[1]>> \o InsertByStartDesc(Tail(sorted), r)
         ELSE <<r>> \o sorted

\* the replacements left in the order supplied
SortByStartDesc_asSupplied(replacements) == replacements

RECURSIVE SortByStartDesc(_)
\* replacements.sort((a, b) => b.original.startIndex - a.original.startIndex)
SortByStartDesc(replacements) ==
    IF Len(replacements) = 0 THEN <<>>
    ELSE InsertByStartDesc(SortByStartDesc(SubSeq(replacements, 1, Len(replacements) - 1)),
                           replacements[Len(replacements)])

\* String.prototype.slice(start, end) and Array.prototype.slice(start, end):
\* a negative argument counts from the end, both are clamped to 0..length
slice(str, start, end) ==
    LET len == Len(str)
        lo  == IF start < 0 THEN (IF len + start < 0 THEN 0 ELSE len + start)
               ELSE IF start > len THEN len ELSE start
        hi  == IF end < 0 THEN (IF len + end < 0 THEN 0 ELSE len + end)
               ELSE IF end > len THEN len ELSE end
    IN  SubSeq(str, lo + 1, hi)

RECURSIVE SpliceAll(_, _)
SpliceAll(content, sortedReplacements) ==
    IF Len(sortedReplacements) = 0 THEN content
    ELSE LET r        == sortedReplacements[1]
             newMatch == reconstructHTML(r.newClasses, r.original.match)
         IN  SpliceAll(slice(content, 0, r.original.startIndex) \o newMatch
                           \o slice(content, r.original.endIndex, Len(content)),
                       Tail(sortedReplacements))

\* applyClassReplacements
applyClassReplacements(content, replacements) ==
    SpliceAll(content, SortByStartDesc(replacements))

----------------------------------------------------------------------------
(* Rewrite rules *)

RECURSIVE CrossPairs(_, _, _, _)
\* for (const x of xs) for (const y of ys): the pairs in loop order
CrossPairs(xs, ys, i, j) ==
    IF i > Len(xs) THEN <<>>
    ELSE IF j > Len(ys) THEN CrossPairs(xs, ys, i + 1, 1)
    ELSE <<[x |-> xs[i], y |-> ys[j]]>> \o CrossPairs(xs, ys, i, j + 1)

RECURSIVE AxisRequests(_, _, _)
\* the body of the double loop of the axis-pair rules for each pair:
\* if (haveSameValue(x, y)) { value = extractValue(x); if (value) replacePair(
\* x.original, y.original, `${variant}${merged}-${value}`) }
AxisRequests(pairs, variant, merged) ==
    IF Len(pairs) = 0 THEN <<>>
    ELSE LET p     == pairs[1]
             value == extractValue(p.x.className)
             here  == IF /\ haveSameValue(p.x.className, p.y.className)
                         /\ value # <<>>
                         /\ value[1] # <<>>
                      THEN <<[class1 |-> p.x.original, class2 |-> p.y.original,
                              newClass |-> variant \o merged \o <<"-">> \o value[1]]>>
                      ELSE <<>>
         IN  here \o AxisRequests(Tail(pairs), variant, merged)

RECURSIVE AxisGroups(_, _, _, _)
\* for (const variant in groupedByVariant): the requests of every group
AxisGroups(grouped, xPrefix, yPrefix, merged) ==
    IF Len(grouped) = 0 THEN <<>>
    ELSE LET g        == grouped[1]
             xClasses == findClassesWithPrefix(g.group, xPrefix)
             yClasses == findClassesWithPrefix(g.group, yPrefix)
         IN  AxisRequests(CrossPairs(xClasses, yClasses, 1, 1), g.variant, merged)
                 \o AxisGroups(Tail(grouped), xPrefix, yPrefix, merged)

RECURSIVE RunRequests(_, _, _)
\* the replacePair calls in order: if (replacePair(...)) matchModified = true
RunRequests(proc, requests, matchModified) ==
    IF Len(requests) = 0 THEN [proc |-> proc, matchModified |-> matchModified]
    ELSE LET r == replacePair(proc, requests[1].class1, requests[1].class2,
                              requests[1].newClass)
         IN  RunRequests(r.proc, Tail(requests), matchModified \/ r.ok)

\* originalClasses.map((cls, index) => ({...parseClassName(cls), index}))
ParsedClasses(classString) ==
    LET originalClasses == SplitClasses(classString)
    IN  [i \in 1..Len(originalClasses) |->
            [variants  |-> parseClassName(originalClasses[i]).variants,
             className |-> parseClassName(originalClasses[i]).className,
             original  |-> originalClasses[i],
             index     |-> i - 1]]

\* the tail of every rule's loop body: if (matchModified) { result =
\* processor.execute(); if (result.changed) replacements.push(...) }
MatchReplacement(match, run) ==
    IF run.matchModified /\ execute(run.proc).changed
    THEN <<[original |-> match, newClasses |-> execute(run.proc).newClasses]>>
    ELSE <<>>

\* one class attribute under an axis-pair rule
AxisMatch(match, xPrefix, yPrefix, merged) ==
    LET processor == createProcessor(match.classes)
        grouped   == groupByVariant(ParsedClasses(match.classes))
        requests  == AxisGroups(grouped, xPrefix, yPrefix, merged)
    IN  MatchReplacement(match, RunRequests(processor, requests, FALSE))

RECURSIVE AxisReplacements(_, _, _, _)
AxisReplacements(classMatches, xPrefix, yPrefix, merged) ==
    IF Len(classMatches) = 0 THEN <<>>
    ELSE AxisMatch(classMatches[1], xPrefix, yPrefix, merged)
             \o AxisReplacements(Tail(classMatches), xPrefix, yPrefix, merged)

\* a return whose flag is set whenever the content holds a class attribute
ConversionResult_flagsEveryMatch(content, replacements) ==
    [newContent |-> IF Len(replacements) > 0
                    THEN applyClassReplacements(content, replacements)
                    ELSE content,
     changed    |-> Len(extractAllClassMatches(content, "test.html")) > 0]

\* the return of every rule: newContent = replacements.length > 0 ?
\* applyClassReplacements(content, replacements) : content
ConversionResult(content, replacements) ==
    [newContent |-> IF Len(replacements) > 0
                    THEN applyClassReplacements(content, replacements)
                    ELSE content,
     changed    |-> Len(replacements) > 0]

\* sizeConversion (the try block)
sizeConversion(content, filePath) ==
    ConversionResult(content,
        AxisReplacements(extractAllClassMatches(content, filePath),
                         <<"w">>, <<"h">>, <<"size">>))

\* the template strings `${prefix}x` and `${prefix}y` for the two prefixes
\* CONVERSIONS instantiates
AxisName(prefix, axis) ==
    CASE prefix = "m" /\ axis = "x" -> "mx"
      [] prefix = "m" /\ axis = "y" -> "my"
      [] prefix = "p" /\ axis = "x" -> "px"
      [] prefix = "p" /\ axis = "y" -> "py"

\* createAxisConversion(prefix) (the try block)
createAxisConversion(prefix, content, filePath) ==
    ConversionResult(content,
        AxisReplacements(extractAllClassMatches(content, filePath),
                         <<AxisName(prefix, "x")>>, <<AxisName(prefix, "y")>>, <<prefix>>))

\* a gate that every non-empty class list passes
overallHasFlexOrGrid_anyClass(parsedClasses) == Len(parsedClasses) > 0

\* parsedClasses.some(flex | grid | flex-* | grid-*)
overallHasFlexOrGrid(parsedClasses) ==
    \E i \in 1..Len(parsedClasses) :
        \/ parsedClasses[i].className = <<"flex">>
        \/ parsedClasses[i].className = <<"grid">>
        \/ StartsWith(parsedClasses[i].className, <<"flex", "-">>)
        \/ StartsWith(parsedClasses[i].className, <<"grid", "-">>)

RECURSIVE GapReplacements(_)
GapReplacements(classMatches) ==
    IF Len(classMatches) = 0 THEN <<>>
    ELSE (IF overallHasFlexOrGrid(ParsedClasses(classMatches[1].classes))
          THEN AxisMatch(classMatches[1], <<"space", "-", "x">>, <<"space", "-", "y">>,
                         <<"gap">>)
          ELSE <<>>)
             \o GapReplacements(Tail(classMatches))

\* gapConversion (the try block)
gapConversion(content, filePath) ==
    ConversionResult(content, GapReplacements(extractAllClassMatches(content, filePath)))

colorPrefixes == <<"bg", "text", "border", "ring", "divide", "placeholder">>

RECURSIVE ColorRequests_noValueCheck(_, _)
\* the color x opacity loop without if (opacityValue)
ColorRequests_noValueCheck(pairs, variant) ==
    IF Len(pairs) = 0 THEN <<>>
    ELSE LET p            == pairs[1]
             opacityValue == extractValue(p.y.className)
             here == IF opacityValue # <<>>
                     THEN <<[class1 |-> p.x.original, class2 |-> p.y.original,
                             newClass |-> variant \o p.x.className \o <<"/">>
                                              \o opacityValue[1]]>>
                     ELSE <<>>
         IN  here \o ColorRequests_noValueCheck(Tail(pairs), variant)

RECURSIVE ColorRequests(_, _)
\* the body of the color x opacity loop: opacityValue = extractValue(opacity);
\* if (opacityValue) replacePair(color, opacity, `${variant}${color}/${value}`)
ColorRequests(pairs, variant) ==
    IF Len(pairs) = 0 THEN <<>>
    ELSE LET p            == pairs[1]
             opacityValue == extractValue(p.y.className)
             here == IF opacityValue # <<>> /\ opacityValue[1] # <<>>
                     THEN <<[class1 |-> p.x.original, class2 |-> p.y.original,
                             newClass |-> variant \o p.x.className \o <<"/">>
                                              \o opacityValue[1]]>>
                     ELSE <<>>
         IN  here \o ColorRequests(Tail(pairs), variant)

RECURSIVE ColorPrefixLoop(_, _, _)
\* for (const prefix of colorPrefixes), from the k-th prefix on
ColorPrefixLoop(g, variant, k) ==
    IF k > Len(colorPrefixes) THEN <<>>
    ELSE LET prefix   == colorPrefixes[k]
             isOpacity(c) == StartsWith(c.className, <<prefix, "-", "opacity", "-">>)
             isColor(c)   == /\ StartsWith(c.className, <<prefix, "-">>)
                             /\ ~isOpacity(c)
                             /\ ~Includes(c.className, "/")
             colorClasses   == Filter(g, {g[i] : i \in {n \in 1..Len(g) : isColor(g[n])}})
             opacityClasses == Filter(g, {g[i] : i \in {n \in 1..Len(g) : isOpacity(g[n])}})
         IN  ColorRequests(CrossPairs(colorClasses, opacityClasses, 1, 1), variant)
                 \o ColorPrefixLoop(g, variant, k + 1)

RECURSIVE ColorGroups(_)
ColorGroups(grouped) ==
    IF Len(grouped) = 0 THEN <<>>
    ELSE ColorPrefixLoop(grouped[1].group, grouped[1].variant, 1)
             \o ColorGroups(Tail(grouped))

\* one class attribute under the color-opacity rule
ColorMatch(match) ==
    LET processor == createProcessor(match.classes)
        grouped   == groupByVariant(ParsedClasses(match.classes))
    IN  MatchReplacement(match, RunRequests(processor, ColorGroups(grouped), FALSE))

RECURSIVE ColorReplacements(_)
ColorReplacements(classMatches) ==
    IF Len(classMatches) = 0 THEN <<>>
    ELSE ColorMatch(classMatches[1]) \o ColorReplacements(Tail(classMatches))

\* colorOpacityConversion (the try block)
colorOpacityConversion(content, filePath) ==
    ConversionResult(content, ColorReplacements(extractAllClassMatches(content, filePath)))

\* CONVERSIONS: the rule table
RuleNames == {"size", "margin", "padding", "color-opacity", "gap"}

CONVERSIONS(name, content, filePath) ==
    CASE name = "size"          -> sizeConversion(content, filePath)
      [] name = "margin"        -> createAxisConversion("m", content, filePath)
      [] name = "padding"       -> createAxisConversion("p", content, filePath)
      [] name = "color-opacity" -> colorOpacityConversion(content, filePath)
      [] name = "gap"           -> gapConversion(content, filePath)

----------------------------------------------------------------------------
(* RuleSpec: a rule applied to a content, and again to its own output *)

\* class tokens the contents are built from, per rule
TokenPool(name) ==
    CASE name = "size" ->
           { <<"w", "-", "4">>, <<"h", "-", "4">>, <<"h", "-", "2">>,
             <<"w", "-", "[a", "-", "4]">>, <<"h", "-", "[b", "-", "4]">>,
             <<"p", "-", "4">> }
      [] name = "margin" ->
           { <<"mx", "-", "4">>, <<"my", "-", "4">>, <<"sm", ":", "mx", "-", "4">>,
             <<"md", ":", "my", "-", "4">>, <<"sm", ":", "my", "-", "4">>,
             <<"p", "-", "4">> }
      [] name = "padding" ->
           { <<"px", "-", "4">>, <<"py", "-", "4">>, <<"py", "-", "2">>,
             <<"px", "-">>, <<"py", "-">>, <<"m", "-", "2">> }
      [] name = "gap" ->
           { <<"space", "-", "x", "-", "4">>, <<"space", "-", "y", "-", "4">>,
             <<"space", "-", "y", "-", "2">>, <<"flex">>,
             <<"md", ":", "grid", "-", "cols", "-", "2">>, <<"p", "-", "4">> }
      [] name = "color-opacity" ->
           { <<"bg", "-", "red", "-", "500">>, <<"bg", "-", "opacity", "-", "50">>,
             <<"bg", "-", "red", "-", "500", "/", "50">>,
             <<"text", "-", "opacity", "-", "50">>,
             <<"hover", ":", "bg", "-", "opacity", "-", "50">>,
             <<"bg", "-", "opacity", "-">> }

RECURSIVE TokenLists(_, _)
\* the token lists of length n over a pool
TokenLists(pool, n) ==
    IF n = 0 THEN {<<>>}
    ELSE {Append(l, t) : l \in TokenLists(pool, n - 1), t \in pool}

\* <div class='t1 t2 ...'>: the tokens as the one class attribute of a content
Markup(tokens) == <<"<div ", "class=", "'">> \o Join(tokens, " ") \o <<"'", ">">>

\* the class tokens of the first class attribute of a content
TokensOf(content) ==
    LET ms == extractAllClassMatches(content, "test.html")
    IN  IF Len(ms) = 0 THEN <<>> ELSE SplitClasses(ms[1].classes)

NoResult == [newContent |-> <<>>, changed |-> FALSE]

\* the scheduler at rest, for the specification of the rules
SchedulerIdle ==
    /\ mode = "sequential" /\ files = <<>> /\ conversions = <<>>
    /\ maxWorkers = 1 /\ chunkSize = 1
    /\ plan = <<>> /\ counts0 = <<>> /\ disk = <<>> /\ errorCounts = <<>>
    /\ processedFiles = 0 /\ batch = 0 /\ workers = <<>> /\ results = <<>>
    /\ outcome = "pending"
    /\ written = {}
    /\ waitMs = <<>>
    /\ progress = <<>>
    /\ totalFiles = 0
    /\ lastIndex = 0
    /\ currentFile = <<>>
    /\ loggingEnabled = FALSE
    /\ errorReports = <<>>

\* no processor object under study
ProcessorIdle ==
    /\ cproc = NewProcessor(<<>>) /\ cintents = <<>> /\ ccalls = <<>>
    /\ cstring = <<>> /\ cresult = <<>>

\* the rule engine at rest, for the specification of the scheduler and of the pattern registry
RulesIdle ==
    /\ rstage = "input" /\ rule = "size" /\ rin = <<>>
    /\ rout1 = NoResult /\ rout2 = NoResult
    /\ ProcessorIdle

\* no call of applyClassReplacements under study
PatternIdle ==
    /\ pcontent = <<>> /\ preplacements = <<>> /\ pnew = <<>>
    /\ pfile = <<>> /\ pmatches = <<>>

RuleInit ==
    /\ SchedulerIdle
    /\ PatternIdle
    /\ rstage = "input"
    /\ rule \in RuleNames
    /\ \E n \in 0..MaxTokens : \E tokens \in TokenLists(TokenPool(rule), n) :
           rin = Markup(tokens)
    /\ rout1 = NoResult
    /\ rout2 = NoResult
    /\ ProcessorIdle

\* rule(content, 'test.html')
ApplyRule ==
    /\ rstage = "input"
    /\ rout1' = CONVERSIONS(rule, rin, "test.html")
    /\ rstage' = "once"
    /\ UNCHANGED <<rule, rin, rout2>>
    /\ UNCHANGED <<svars, pvars, cvars>>

\* rule(rule(content).newContent, 'test.html')
ApplyRuleAgain ==
    /\ rstage = "once"
    /\ rout2' = CONVERSIONS(rule, rout1.newContent, "test.html")
    /\ rstage' = "twice"
    /\ UNCHANGED <<rule, rin, rout1>>
    /\ UNCHANGED <<svars, pvars, cvars>>

RuleNext == ApplyRule \/ ApplyRuleAgain

RuleSpec == RuleInit /\ [][RuleNext]_vars

----------------------------------------------------------------------------
(* SafeClassProcessor as an object: calls of its methods in any order      *)

\* class names of a snapshot
MaxClasses == 3

\* intents recorded between two resets
MaxIntents == 3

\* the class names a caller uses
ClassNames == { <<"a">>, <<"b">> }

ProcessorInit ==
    /\ SchedulerIdle
    /\ PatternIdle
    /\ rstage = "input" /\ rule = "size" /\ rin = <<>>
    /\ rout1 = NoResult /\ rout2 = NoResult
    /\ \E n \in 0..MaxClasses : \E classes \in [1..n -> ClassNames] :
           cproc = NewProcessor(classes)
    /\ cintents = <<>>
    /\ ccalls = <<>>
    /\ cstring = <<>>
    /\ cresult = <<>>

\* processor.markForRemoval(className)
MarkForRemoval ==
    /\ Len(cintents) < MaxIntents
    /\ \E className \in ClassNames :
          LET r == markForRemoval(cproc, className)
          IN  /\ cproc' = r.proc
              /\ cintents' = IF r.ok
                             THEN Append(cintents, [operation |-> "remove",
                                                    original |-> className,
                                                    replacement |-> <<>>])
                             ELSE cintents
    /\ cresult' = <<>>
    /\ UNCHANGED <<svars, pvars>>
    /\ UNCHANGED <<rstage, rule, rin, rout1, rout2, ccalls, cstring>>

\* processor.markForReplacement(original, replacement)
MarkForReplacement ==
    /\ Len(cintents) < MaxIntents
    /\ \E original \in ClassNames, replacement \in ClassNames :
          LET r == markForReplacement(cproc, original, replacement)
          IN  /\ cproc' = r.proc
              /\ cintents' = IF r.ok
                             THEN Append(cintents, [operation |-> "replace",
                                                    original |-> original,
                                                    replacement |-> replacement])
                             ELSE cintents
    /\ cresult' = <<>>
    /\ UNCHANGED <<svars, pvars>>
    /\ UNCHANGED <<rstage, rule, rin, rout1, rout2, ccalls, cstring>>

\* processor.addClass(className)
AddClass ==
    /\ Len(cintents) < MaxIntents
    /\ \E className \in ClassNames :
          /\ cproc' = addClass(cproc, className)
          /\ cintents' = Append(cintents, [operation |-> "add",
                                           original |-> <<>>,
                                           replacement |-> className])
    /\ cresult' = <<>>
    /\ UNCHANGED <<svars, pvars>>
    /\ UNCHANGED <<rstage, rule, rin, rout1, rout2, ccalls, cstring>>

\* processor.reset()
Reset ==
    /\ cproc' = reset(cproc)
    /\ cintents' = <<>>
    /\ cresult' = <<>>
    /\ UNCHANGED <<svars, pvars>>
    /\ UNCHANGED <<rstage, rule, rin, rout1, rout2, ccalls, cstring>>

\* processor.execute()
Execute ==
    /\ cresult' = <<execute(cproc)>>
    /\ UNCHANGED <<cproc, cintents>>
    /\ UNCHANGED <<svars, pvars>>
    /\ UNCHANGED <<rstage, rule, rin, rout1, rout2, ccalls, cstring>>

ProcessorNext ==
    \/ MarkForRemoval
    \/ MarkForReplacement
    \/ AddClass
    \/ Reset
    \/ Execute

ProcessorSpec == ProcessorInit /\ [][ProcessorNext]_vars

----------------------------------------------------------------------------
(* ClassUtils.replacePair: a processor driven pair by pair, then executed  *)

\* class names of a snapshot that is driven by replacePair
MaxPairClasses == 2

\* calls of replacePair on one processor
MaxPairs == 2

\* the class names a caller passes as class1 and class2
PairNames == { <<"a">>, <<"b">>, <<"c">> }

\* the class names a caller passes as replacement
PairReplacements == { <<"m">>, <<"n">> }

PairInit ==
    /\ SchedulerIdle
    /\ PatternIdle
    /\ rstage = "input" /\ rule = "size" /\ rin = <<>>
    /\ rout1 = NoResult /\ rout2 = NoResult
    /\ \E n \in 0..MaxPairClasses : \E classes \in [1..n -> PairNames] :
           cproc = NewProcessor(classes)
    /\ cintents = <<>>
    /\ ccalls = <<>>
    /\ cstring = <<>>
    /\ cresult = <<>>

\* ClassUtils.replacePair(processor, class1, class2, replacement)
ReplacePair ==
    /\ Len(ccalls) < MaxPairs
    /\ \E class1 \in PairNames, class2 \in PairNames, replacement \in PairReplacements :
          LET r  == replacePair(cproc, class1, class2, replacement)
              in1 == Includes(cproc.originalClasses, class1)
              in2 == Includes(cproc.originalClasses, class2)
          IN  /\ cproc' = r.proc
              /\ ccalls' = Append(ccalls, [class1 |-> class1, class2 |-> class2,
                                           replacement |-> replacement, ok |-> r.ok])
              /\ cintents' =
                     IF r.ok
                     THEN cintents \o
                          << [operation |-> "remove", original |-> class1, replacement |-> <<>>],
                             [operation |-> "remove", original |-> class2, replacement |-> <<>>],
                             [operation |-> "add", original |-> <<>>, replacement |-> replacement] >>
                     ELSE IF in1 \/ in2 THEN <<>>
                     ELSE cintents
    /\ cresult' = <<>>
    /\ UNCHANGED <<svars, pvars, rvars, cstring>>

PairNext ==
    \/ ReplacePair
    \/ Execute

PairSpec == PairInit /\ [][PairNext]_vars

----------------------------------------------------------------------------
(* ClassUtils.createProcessor: from an attribute value to the token list   *)

\* characters and names of an attribute value
MaxPieces == 3

\* what an attribute value is made of: class names and white space
ValuePieces == { "a", "b", " ", "\n", "\t" }

TokenInit ==
    /\ SchedulerIdle
    /\ RulesIdle
    /\ PatternIdle

\* processor = ClassUtils.createProcessor(match.classes)
CreateProcessor ==
    /\ cstring = <<>>
    /\ \E n \in 0..MaxPieces : \E classString \in [1..n -> ValuePieces] :
          /\ cstring' = <<classString>>
          /\ cproc' = createProcessor(classString)
    /\ UNCHANGED <<cintents, ccalls, cresult>>
    /\ UNCHANGED <<svars, pvars, rvars>>

TokenNext == CreateProcessor

TokenSpec == TokenInit /\ [][TokenNext]_vars

----------------------------------------------------------------------------
(* PatternSpec: applyClassReplacements on a content with several class      *)
(* attributes, for every selection of its matches, in every order, with    *)
(* shorter and longer replacements                                         *)

\* most class attributes in one content
MaxAttributes == 3

\* the class texts of the attributes
ClassTexts == { <<>>, <<"w", "-", "4", " ", "h", "-", "4">> }

\* the newClasses of a replacement
NewClassLists == { <<>>,
                   << <<"size", "-", "4">> >>,
                   << <<"w", "-", "4">>, <<"h", "-", "4">>, <<"p", "-", "2">> >> }

RECURSIVE Document(_, _)
\* <p id=i class='...'><p id=i+1 class='...'>...: one element per class text
Document(texts, i) ==
    IF i > Len(texts) THEN <<>>
    ELSE <<"<p id=", ToString(i), " ", "class=", "'">> \o texts[i] \o <<"'", ">">>
             \o Document(texts, i + 1)

\* the sequences without repetition over a set
Arrangements(S) ==
    UNION { { f \in [1..n -> S] : \A i, j \in 1..n : i # j => f[i] # f[j] }
            : n \in 0..Cardinality(S) }

PatternInit ==
    /\ SchedulerIdle
    /\ RulesIdle
    /\ \E n \in 1..MaxAttributes : \E texts \in [1..n -> ClassTexts] :
           pcontent = Document(texts, 1)
    /\ LET matches == extractAllClassMatches(pcontent, "test.html")
       IN  \E order \in Arrangements(1..Len(matches)) :
               \E news \in [1..Len(order) -> NewClassLists] :
                   preplacements = [i \in 1..Len(order) |->
                                      [original   |-> matches[order[i]],
                                       newClasses |-> news[i]]]
    /\ pnew = <<>>
    /\ pfile = <<"test", "html">> /\ pmatches = <<>>

\* applyClassReplacements(content, replacements)
ApplyReplacements ==
    /\ pnew = <<>>
    /\ pnew' = <<applyClassReplacements(pcontent, preplacements)>>
    /\ UNCHANGED <<pcontent, preplacements, pfile, pmatches>>
    /\ UNCHANGED <<svars, rvars, cvars>>

PatternNext == ApplyReplacements

PatternSpec == PatternInit /\ [][PatternNext]_vars

----------------------------------------------------------------------------
(* Pattern registry: the matchers of a path and the merge of their matches *)
(* in extractAllClassMatches.  A path is the sequence of its dot-separated *)
(* parts.                                                                  *)

\* PATTERN_MATCHERS in registry order, as the atoms a match opens with; every
\* pattern listed goes on with a quote, text without quotes and a quote.  The
\* multi-line patterns find the same occurrences as the quoted ones.  The two
\* patterns of another shape (className={'...'}, template literal) belong to
\* the react and javascript / typescript frameworks only.
PATTERN_MATCHERS ==
    << [opener |-> <<"class=">>, framework |-> {"html", "php", "django", "erb"}],
       [opener |-> <<"className=">>, framework |-> {"react", "jsx", "tsx"}],
       [opener |-> <<":", "class=">>, framework |-> {"vue"}],
       [opener |-> <<"v-bind", ":", "class=">>, framework |-> {"vue"}],
       [opener |-> <<"[class]=">>, framework |-> {"angular"}],
       [opener |-> <<"[ngClass]=">>, framework |-> {"angular"}],
       [opener |-> <<"class=">>, framework |-> {"svelte"}],
       [opener |-> <<"class=">>, framework |-> {"html", "php", "django", "erb"}],
       [opener |-> <<"className=">>, framework |-> {"react", "jsx", "tsx"}] >>

\* frameworkMap[extension], ['html'] for an extension that is not a key
frameworkMap(extension) ==
    CASE extension \in {"html", "htm"} -> {"html", "angular"}
      [] extension = "php"    -> {"php"}
      [] extension = "erb"    -> {"erb"}
      [] extension = "jsx"    -> {"react", "jsx", "html"}
      [] extension = "tsx"    -> {"react", "jsx", "tsx", "html"}
      [] extension = "js"     -> {"javascript", "html"}
      [] extension = "ts"     -> {"typescript", "html", "angular"}
      [] extension = "vue"    -> {"vue", "html"}
      [] extension = "svelte" -> {"svelte"}
      [] OTHER                -> {"html"}

\* getPatternMatchersForFile: the matchers of a framework of the extension,
\* in registry order (as indices of PATTERN_MATCHERS)
getPatternMatchersForFile(filePath) ==
    LET relevantFrameworks == frameworkMap(filePath[Len(filePath)])
        RECURSIVE Pick(_)
        Pick(k) ==
            IF k > Len(PATTERN_MATCHERS) THEN <<>>
            ELSE (IF PATTERN_MATCHERS[k].framework \cap relevantFrameworks # {}
                  THEN <<k>> ELSE <<>>) \o Pick(k + 1)
    IN  Pick(1)

\* getPatternSpecificity
getPatternSpecificity(frameworks) ==
    IF "vue" \in frameworks THEN 3
    ELSE IF frameworks \cap {"react", "jsx", "tsx"} # {} THEN 3
    ELSE IF "angular" \in frameworks THEN 2
    ELSE IF "svelte" \in frameworks THEN 2
    ELSE IF "html" \in frameworks THEN 1
    ELSE 0

RECURSIVE exec(_, _, _)
\* the exec loop of matcher k's pattern (global flag) from 1-based position i
exec(content, k, i) ==
    LET opener == PATTERN_MATCHERS[k].opener
        n      == Len(opener)
    IN  IF i + n + 1 > Len(content) THEN <<>>
        ELSE IF /\ SubSeq(content, i, i + n - 1) = opener
                /\ content[i + n] = "'"
                /\ \E j \in (i + n + 1)..Len(content) : content[j] = "'"
        THEN LET j == CHOOSE c \in (i + n + 1)..Len(content) :
                          /\ content[c] = "'"
                          /\ \A m \in (i + n + 1)..(c - 1) : content[m] # "'"
                 text == SubSeq(content, i, j)
             IN  <<[match |-> text, classes |-> extractQuoted(text), matcher |-> k,
                    startIndex |-> i - 1, endIndex |-> j]>>
                 \o exec(content, k, j + 1)
        ELSE exec(content, k, i + 1)

\* the test of matches.find(existing => ...)
overlapping(startIndex, endIndex, existing) ==
    \/ startIndex >= existing.startIndex /\ startIndex < existing.endIndex
    \/ endIndex > existing.startIndex /\ endIndex <= existing.endIndex
    \/ startIndex <= existing.startIndex /\ endIndex >= existing.endIndex

\* the body of the while loop for one match m: the seen-set, the overlap
\* with the first overlapping match on the list, specificity, push
pushMatch(acc, m) ==
    LET key  == <<m.startIndex, m.endIndex, m.match>>
        hits == {e \in 1..Len(acc.matches) :
                    overlapping(m.startIndex, m.endIndex, acc.matches[e])}
        pushed(list) == [matches |-> Append(list, m), seen |-> acc.seen \cup {key}]
    IN  IF key \in acc.seen THEN acc
        ELSE IF hits = {} THEN pushed(acc.matches)
        ELSE LET existingIndex == CHOOSE e \in hits : \A f \in hits : e <= f
                 overlappingMatch == acc.matches[existingIndex]
             IN  IF getPatternSpecificity(PATTERN_MATCHERS[m.matcher].framework)
                      > getPatternSpecificity(
                            PATTERN_MATCHERS[overlappingMatch.matcher].framework)
                 THEN pushed(SubSeq(acc.matches, 1, existingIndex - 1)
                             \o SubSeq(acc.matches, existingIndex + 1,
                                       Len(acc.matches)))
                 ELSE acc

RECURSIVE pushAll(_, _)
pushAll(acc, found) ==
    IF Len(found) = 0 THEN acc
    ELSE pushAll(pushMatch(acc, found[1]), Tail(found))

RECURSIVE forMatchers(_, _, _)
\* for (const matcher of matchers) { ... }
forMatchers(acc, content, matchers) ==
    IF Len(matchers) = 0 THEN acc
    ELSE forMatchers(pushAll(acc, exec(content, matchers[1], 1)), content,
                     Tail(matchers))

RECURSIVE InsertByStartAsc(_, _)
InsertByStartAsc(sorted, m) ==
    IF Len(sorted) = 0 THEN <<m>>
    ELSE IF sorted[1].startIndex <= m.startIndex
         THEN <<sorted[1]>> \o InsertByStartAsc(Tail(sorted), m)
         ELSE <<m>> \o sorted

RECURSIVE SortByStartAsc(_)
\* matches.sort((a, b) => a.startIndex - b.startIndex)
SortByStartAsc(matches) ==
    IF Len(matches) = 0 THEN <<>>
    ELSE InsertByStartAsc(SortByStartAsc(SubSeq(matches, 1, Len(matches) - 1)),
                          matches[Len(matches)])

\* extractAllClassMatches with every matcher of the path
extractAllClassMatchesOf(content, filePath) ==
    SortByStartAsc(forMatchers([matches |-> <<>>, seen |-> {}], content,
                               getPatternMatchersForFile(filePath)).matches)

\* atoms of a content
MaxAtoms == 8

\* the paths of a call
MatchPaths == { <<"test", "html">>, <<"test", "vue">> }

\* the atoms of the contents of a path: an attribute opener, a quote, a class
\* atom and what turns the opener into a binding of the path's framework
MatchAtoms(filePath) ==
    {"class=", "'", "a"}
        \cup (IF filePath[Len(filePath)] = "vue" THEN {":", "v-bind"} ELSE {"[class]="})

MatchInit ==
    /\ SchedulerIdle
    /\ RulesIdle
    /\ preplacements = <<>> /\ pnew = <<>>
    /\ pfile \in MatchPaths
    /\ \E n \in 0..MaxAtoms : pcontent \in [1..n -> MatchAtoms(pfile)]
    /\ pmatches = <<>>

\* extractAllClassMatches(content, filePath)
ExtractMatches ==
    /\ pmatches = <<>>
    /\ pmatches' = <<extractAllClassMatchesOf(pcontent, pfile)>>
    /\ UNCHANGED <<pcontent, preplacements, pnew, pfile>>
    /\ UNCHANGED <<svars, rvars, cvars>>

MatchNext == ExtractMatches

MatchSpec == MatchInit /\ [][MatchNext]_vars

----------------------------------------------------------------------------
(* ErrorHandler: the error counters of the session and the decision to go  *)
(* on after an error                                                       *)

\* errorThreshold of shouldContinueProcessing
errorThreshold == 10

\* FileSystemError / ContentProcessingError: recoverable by default
FileSystemError == [type |-> "file", recoverable |-> TRUE]
ContentProcessingError == [type |-> "content", recoverable |-> TRUE]

\* the synchronous part of ErrorHandler.recordError: errorCounts[type]++
recordError(counts, error) ==
    [counts EXCEPT ![error.type] = counts[error.type] + 1]

\* shouldContinueProcessing that still goes on at the threshold itself
shouldContinueProcessing_atMost(counts, error) ==
    IF ~error.recoverable THEN FALSE
    ELSE counts[error.type] <= errorThreshold

\* ErrorHandler.shouldContinueProcessing against the counters counts
shouldContinueProcessing(counts, error) ==
    IF ~error.recoverable THEN FALSE
    ELSE counts[error.type] < errorThreshold

----------------------------------------------------------------------------
(* ParallelProcessor / FileWorker                                          *)

\* number of paths of a call
NumFiles == 3
\* the values of options.maxWorkers and of options.chunkSize of a call
WorkerCounts == {1, 2}
ChunkSizes == {1, 2}

Min(a, b) == IF a < b THEN a ELSE b

\* the contents on disk before the call, by path: both rules of a call
\* rewrite the first, none rewrites the second, one rewrites the third
InitialContent(path) ==
    CASE path % 3 = 1 ->
           Markup(<< <<"w", "-", "4">>, <<"h", "-", "4">>,
                     <<"mx", "-", "2">>, <<"my", "-", "2">> >>)
      [] path % 3 = 2 -> Markup(<< <<"w", "-", "4">>, <<"h", "-", "2">> >>)
      [] OTHER        -> Markup(<< <<"mx", "-", "2">>, <<"my", "-", "2">> >>)

\* waitForMemoryRelease: maxWaitMs and the delay of its timer
maxWaitMs == 5000

timerMs == 100

\* the operation of a path's processing that fails, if it is reached:
\* fs.readFile, the k-th requested rule, fs.writeFile
Faults == {"none", "read", "rule1", "rule2", "write"}

RuleFails(fault, conv) ==
    \/ fault = "rule1" /\ conv = 1
    \/ fault = "rule2" /\ conv = 2
    \/ fault = "rules"

\* the rule sequences of a call
ConversionLists == { <<"size", "margin">> }

\* errors of a kind on record when the call is made: the counters are static
\* and no call resets them; from errorThreshold - 2 on, the second error of
\* the call reaches the threshold
PriorCounts == {0, errorThreshold - 2}

RECURSIVE distributeFiles_stepOne(_, _)
\* distributeFiles with i += 1 in the place of i += chunkSize
distributeFiles_stepOne(fs, size) ==
    IF Len(fs) = 0 THEN <<>>
    ELSE <<SubSeq(fs, 1, Min(size, Len(fs)))>>
         \o distributeFiles_stepOne(Tail(fs), size)

RECURSIVE distributeFiles(_, _)
\* ChunkDistributor.distributeFiles
distributeFiles(fs, size) ==
    IF Len(fs) = 0 THEN <<>>
    ELSE <<SubSeq(fs, 1, Min(size, Len(fs)))>>
         \o distributeFiles(SubSeq(fs, Min(size, Len(fs)) + 1, Len(fs)), size)

fileChunks == distributeFiles(files, chunkSize)

\* a processChunk call that has just issued the read of its first file
NewWorker(chunk) ==
    [chunk |-> chunk, idx |-> 1, step |-> "read", currentContent |-> <<>>,
     hasChanges |-> FALSE, conv |-> 1, results |-> <<>>]

\* processChunk whose catch leaves the loop: a thrown error ends the chunk
FileDone_abortsChunk(wk, success, changed, error) ==
    LET r == [filePath |-> wk.chunk[wk.idx], success |-> success,
              changed |-> changed, error |-> error]
    IN  [wk EXCEPT !.results = Append(@, r),
                   !.idx = @ + 1,
                   !.step = IF success /\ wk.idx < Len(wk.chunk) THEN "read"
                            ELSE "done",
                   !.currentContent = <<>>, !.hasChanges = FALSE, !.conv = 1]

\* processChunk: push the WorkerResult of the current file, go to the next file
FileDone(wk, success, changed, error) ==
    LET r == [filePath |-> wk.chunk[wk.idx], success |-> success,
              changed |-> changed, error |-> error]
    IN  [wk EXCEPT !.results = Append(@, r),
                   !.idx = @ + 1,
                   !.step = IF wk.idx < Len(wk.chunk) THEN "read" ELSE "done",
                   !.currentContent = <<>>, !.hasChanges = FALSE, !.conv = 1]

\* processFile that writes whether or not a rule reported a change
AfterConversions_alwaysWrites(wk) == [wk EXCEPT !.step = "write"]

\* processFile after the rule loop: write when hasChanges, else return
AfterConversions(wk) ==
    IF wk.hasChanges THEN [wk EXCEPT !.step = "write"]
    ELSE FileDone(wk, TRUE, FALSE, <<>>)

RECURSIVE NextKnown(_)
\* first index from k on whose name is a key of conversionFunctions
\* (if (!conversionFunction) continue)
NextKnown(k) ==
    IF k > Len(conversions) \/ conversions[k] \in RuleNames THEN k
    ELSE NextKnown(k + 1)

\* a rule loop that ends after its first rule
NextConversion_firstOnly(wk, k) ==
    IF k > 1 \/ NextKnown(k) > Len(conversions) THEN AfterConversions(wk)
    ELSE [wk EXCEPT !.step = "rule", !.conv = NextKnown(k)]

\* processFile: the loop over conversions, from rule number k on
NextConversion(wk, k) ==
    IF NextKnown(k) > Len(conversions) THEN AfterConversions(wk)
    ELSE [wk EXCEPT !.step = "rule", !.conv = NextKnown(k)]

\* the state a call of processFiles or processFilesSequential finds: the
\* faults its paths can meet and ErrorHandler.totalFiles
SchedulerInitOver(faults, total) ==
    /\ mode \in {"parallel", "sequential"}
    /\ files = [i \in 1..NumFiles |-> i]
    /\ conversions \in ConversionLists
    /\ maxWorkers \in WorkerCounts
    /\ chunkSize \in ChunkSizes
    /\ mode = "sequential" => maxWorkers = 1 /\ chunkSize = 1
    /\ plan \in [1..NumFiles -> faults]
    /\ \E n \in PriorCounts :
          counts0 = [file |-> n, content |-> n, git |-> 0, config |-> 0]
    /\ errorCounts = counts0
    /\ disk = [p \in 1..NumFiles |-> InitialContent(p)]
    /\ processedFiles = 0
    /\ batch = 0
    /\ workers = <<>>
    /\ results = <<>>
    /\ outcome = "pending"
    /\ written = {}
    /\ waitMs = <<>>
    /\ progress = <<>>
    /\ totalFiles = total
    /\ lastIndex = 0
    /\ currentFile = <<>>
    /\ errorReports = <<>>

SchedulerInit == SchedulerInitOver(Faults, 0)

\* a call in a process that has not called ErrorHandler.initSession:
\* loggingConfig is null
Init == SchedulerInit /\ loggingEnabled = FALSE /\ RulesIdle /\ PatternIdle

\* ErrorHandler.currentFile when a step of processChunk wk ends: the finally
\* of the wrapper that has returned has cleared it, and the safeFileOperation
\* the step has gone on to, if any, has set it to its own path before
\* awaiting fs.readFile / fs.writeFile
currentFileAfter(wk) ==
    IF wk.step \in {"read", "write"} THEN <<wk.chunk[wk.idx]>> ELSE <<>>

\* logToErrorReport called from recordError, in the same step: with logging
\* enabled createErrorReport takes context.currentFile from
\* ErrorHandler.currentFile, whose value at that moment is current, and the
\* report is kept; filePath is the path the failed operation was given
logToErrorReport(reports, filePath, current) ==
    IF loggingEnabled
    THEN Append(reports, [file |-> filePath, currentFile |-> current])
    ELSE reports

\* the variables no step of a worker touches
WorkerFrame ==
    UNCHANGED <<mode, files, conversions, maxWorkers, chunkSize, plan, counts0,
                processedFiles, batch, results, outcome>>

\* processFiles: fileChunks.slice(i, i + maxWorkers)
currentBatch == slice(fileChunks, batch, batch + maxWorkers)

\* processFiles before a batch: MemoryMonitor.shouldPauseProcessing reads a
\* heap usage above memoryThreshold and waitForMemoryRelease takes startTime
MemoryPause ==
    /\ mode = "parallel" /\ outcome = "pending"
    /\ workers = <<>>
    /\ batch < Len(fileChunks)
    /\ waitMs = <<>>
    /\ waitMs' = <<0>>
    /\ UNCHANGED <<mode, files, conversions, maxWorkers, chunkSize, plan, counts0,
                   disk, errorCounts, processedFiles, batch, workers, results,
                   outcome, written>>
    /\ UNCHANGED progress
    /\ UNCHANGED totalFiles
    /\ UNCHANGED lastIndex
    /\ UNCHANGED currentFile
    /\ UNCHANGED loggingEnabled
    /\ UNCHANGED errorReports
    /\ UNCHANGED <<rvars, pvars, cvars>>

\* waitForMemoryRelease with startTime taken anew once maxWaitMs have passed
MemoryWait_restarts ==
    /\ waitMs # <<>>
    /\ waitMs' = <<IF waitMs[1] + timerMs >= maxWaitMs THEN 0
                   ELSE waitMs[1] + timerMs>>
    /\ UNCHANGED <<mode, files, conversions, maxWorkers, chunkSize, plan, counts0,
                   disk, errorCounts, processedFiles, batch, workers, results,
                   outcome, written>>
    /\ UNCHANGED progress
    /\ UNCHANGED totalFiles
    /\ UNCHANGED lastIndex
    /\ UNCHANGED currentFile
    /\ UNCHANGED loggingEnabled
    /\ UNCHANGED errorReports
    /\ UNCHANGED <<rvars, pvars, cvars>>

\* waitForMemoryRelease: the usage read is above the threshold and less than
\* maxWaitMs have passed; the timer of timerMs is awaited
MemoryWait ==
    /\ waitMs # <<>>
    /\ waitMs[1] < maxWaitMs
    /\ waitMs' = <<waitMs[1] + timerMs>>
    /\ UNCHANGED <<mode, files, conversions, maxWorkers, chunkSize, plan, counts0,
                   disk, errorCounts, processedFiles, batch, workers, results,
                   outcome, written>>
    /\ UNCHANGED progress
    /\ UNCHANGED totalFiles
    /\ UNCHANGED lastIndex
    /\ UNCHANGED currentFile
    /\ UNCHANGED loggingEnabled
    /\ UNCHANGED errorReports
    /\ UNCHANGED <<rvars, pvars, cvars>>

\* processFiles handing every remaining chunk to processChunk at once
StartBatch_allChunks ==
    /\ mode = "parallel" /\ outcome = "pending"
    /\ workers = <<>>
    /\ batch < Len(fileChunks)
    /\ waitMs' = <<>>
    /\ workers' = [k \in 1..(Len(fileChunks) - batch) |->
                      NewWorker(fileChunks[batch + k])]
    /\ UNCHANGED <<mode, files, conversions, maxWorkers, chunkSize, plan, counts0,
                   disk, errorCounts, processedFiles, batch, results, outcome>>
    /\ UNCHANGED <<written, progress>>
    /\ UNCHANGED totalFiles
    /\ UNCHANGED lastIndex
    /\ currentFile' = currentFileAfter(workers'[Len(workers')])
    /\ UNCHANGED loggingEnabled
    /\ UNCHANGED errorReports
    /\ UNCHANGED <<rvars, pvars, cvars>>

\* processFiles: a batch of at most maxWorkers chunks is handed to processChunk,
\* after shouldPauseProcessing returned false or waitForMemoryRelease left
\* its loop (the usage read is not above the threshold, or maxWaitMs passed)
StartBatch ==
    /\ mode = "parallel" /\ outcome = "pending"
    /\ workers = <<>>
    /\ batch < Len(fileChunks)
    /\ Len(currentBatch) > 0
    /\ waitMs' = <<>>
    /\ workers' = [k \in 1..Len(currentBatch) |-> NewWorker(currentBatch[k])]
    /\ UNCHANGED <<mode, files, conversions, maxWorkers, chunkSize, plan, counts0,
                   disk, errorCounts, processedFiles, batch, results, outcome>>
    /\ UNCHANGED <<written, progress>>
    /\ UNCHANGED totalFiles
    /\ UNCHANGED lastIndex
    /\ currentFile' = currentFileAfter(workers'[Len(workers')])
    /\ UNCHANGED loggingEnabled
    /\ UNCHANGED errorReports
    /\ UNCHANGED <<rvars, pvars, cvars>>

\* processFilesSequential: processChunk([files[i]])
SequentialStart ==
    /\ mode = "sequential" /\ outcome = "pending"
    /\ workers = <<>>
    /\ batch < Len(files)
    /\ workers' = <<NewWorker(<<files[batch + 1]>>)>>
    /\ progress' = Append(progress, [processed |-> batch, total |-> Len(files),
                                     currentFile |-> files[batch + 1]])
    /\ UNCHANGED <<mode, files, conversions, maxWorkers, chunkSize, plan, counts0,
                   disk, errorCounts, processedFiles, batch, results, outcome>>
    /\ UNCHANGED <<written, waitMs>>
    /\ UNCHANGED totalFiles
    /\ UNCHANGED lastIndex
    /\ currentFile' = currentFileAfter(workers'[1])
    /\ UNCHANGED loggingEnabled
    /\ UNCHANGED errorReports
    /\ UNCHANGED <<rvars, pvars, cvars>>

\* fs.readFile resolves: processFile goes on to the rules, or returns at once
\* on an empty content
ReadFile(w) ==
    /\ workers[w].step = "read"
    /\ plan[workers[w].chunk[workers[w].idx]] # "read"
    /\ LET wk == workers[w]
           content == disk[wk.chunk[wk.idx]]
       IN  workers' = [workers EXCEPT ![w] =
               IF content = <<>> THEN FileDone(wk, TRUE, FALSE, <<>>)
               ELSE NextConversion([wk EXCEPT !.currentContent = content,
                                              !.hasChanges = FALSE], 1)]
    /\ UNCHANGED <<disk, errorCounts>>
    /\ WorkerFrame
    /\ UNCHANGED <<written, waitMs, progress>>
    /\ UNCHANGED totalFiles
    /\ UNCHANGED lastIndex
    /\ currentFile' = currentFileAfter(workers'[w])
    /\ UNCHANGED loggingEnabled
    /\ UNCHANGED errorReports
    /\ UNCHANGED <<rvars, pvars, cvars>>

\* fs.readFile rejects: safeFileOperation records the error and awaits
ReadFileFails(w) ==
    /\ workers[w].step = "read"
    /\ plan[workers[w].chunk[workers[w].idx]] = "read"
    /\ errorCounts' = recordError(errorCounts, FileSystemError)
    /\ workers' = [workers EXCEPT ![w].step = "readFailed"]
    /\ UNCHANGED disk
    /\ WorkerFrame
    /\ UNCHANGED <<written, waitMs, progress>>
    /\ UNCHANGED totalFiles
    /\ UNCHANGED lastIndex
    /\ UNCHANGED currentFile
    /\ UNCHANGED loggingEnabled
    /\ errorReports' = logToErrorReport(errorReports, workers[w].chunk[workers[w].idx],
                                        currentFile)
    /\ UNCHANGED <<rvars, pvars, cvars>>

\* safeFileOperation('read') after recordError: null (processFile returns
\* changed: false) or throw (processChunk pushes a failed result)
ReadFailedDecide(w) ==
    /\ workers[w].step = "readFailed"
    /\ workers' = [workers EXCEPT ![w] =
          IF shouldContinueProcessing(errorCounts, FileSystemError)
          THEN FileDone(workers[w], TRUE, FALSE, <<>>)
          ELSE FileDone(workers[w], FALSE, FALSE, <<"file">>)]
    /\ UNCHANGED <<disk, errorCounts>>
    /\ WorkerFrame
    /\ UNCHANGED <<written, waitMs, progress>>
    /\ UNCHANGED totalFiles
    /\ UNCHANGED lastIndex
    /\ currentFile' = currentFileAfter(workers'[w])
    /\ UNCHANGED loggingEnabled
    /\ UNCHANGED errorReports
    /\ UNCHANGED <<rvars, pvars, cvars>>

\* safeContentOperation(() => conversionFunction(currentContent, filePath))
\* with a rule that returns: the rule is a synchronous function, called in
\* the try block without an await, so the whole scan of extractAllClassMatches
\* (lastIndex = 0, the exec loop to its end) lies inside this step
ApplyConversion(w) ==
    /\ workers[w].step = "rule"
    /\ ~RuleFails(plan[workers[w].chunk[workers[w].idx]], workers[w].conv)
    /\ LET wk == workers[w]
           result == CONVERSIONS(conversions[wk.conv], wk.currentContent,
                                 wk.chunk[wk.idx])
       IN  workers' = [workers EXCEPT ![w] =
               NextConversion([wk EXCEPT !.currentContent = result.newContent,
                                         !.hasChanges = @ \/ result.changed],
                              wk.conv + 1)]
    /\ lastIndex' = lastIndexAfterLoop(workers[w].currentContent, 1)
    /\ UNCHANGED <<disk, errorCounts>>
    /\ WorkerFrame
    /\ UNCHANGED <<written, waitMs, progress>>
    /\ UNCHANGED totalFiles
    /\ currentFile' = currentFileAfter(workers'[w])
    /\ UNCHANGED loggingEnabled
    /\ UNCHANGED errorReports
    /\ UNCHANGED <<rvars, pvars, cvars>>

\* the rule fails inside: its catch records the error and returns its input
\* unchanged, or rethrows; then safeContentOperation records the error again
\* and awaits.  safeContentOperation has set ErrorHandler.currentFile to the
\* path in this same step, before it called the rule.
ApplyConversionFails(w) ==
    /\ workers[w].step = "rule"
    /\ RuleFails(plan[workers[w].chunk[workers[w].idx]], workers[w].conv)
    /\ LET wk == workers[w]
           inRule == recordError(errorCounts, ContentProcessingError)
       IN  IF shouldContinueProcessing(inRule, ContentProcessingError)
           THEN /\ errorCounts' = inRule
                /\ workers' = [workers EXCEPT ![w] = NextConversion(wk, wk.conv + 1)]
           ELSE /\ errorCounts' = recordError(inRule, ContentProcessingError)
                /\ workers' = [workers EXCEPT ![w].step = "ruleFailed"]
    /\ LET filePath == workers[w].chunk[workers[w].idx]
           inRule   == logToErrorReport(errorReports, filePath, <<filePath>>)
       IN  errorReports' = IF workers'[w].step = "ruleFailed"
                           THEN logToErrorReport(inRule, filePath, <<filePath>>)
                           ELSE inRule
    /\ UNCHANGED disk
    /\ WorkerFrame
    /\ UNCHANGED <<written, waitMs, progress>>
    /\ UNCHANGED totalFiles
    /\ UNCHANGED lastIndex
    /\ currentFile' = IF workers'[w].step = "ruleFailed" THEN <<workers[w].chunk[workers[w].idx]>>
                      ELSE currentFileAfter(workers'[w])
    /\ UNCHANGED loggingEnabled
    /\ UNCHANGED <<rvars, pvars, cvars>>

\* safeContentOperation after recordError: null (the rule is skipped) or throw
ConversionFailedDecide(w) ==
    /\ workers[w].step = "ruleFailed"
    /\ workers' = [workers EXCEPT ![w] =
          IF shouldContinueProcessing(errorCounts, ContentProcessingError)
          THEN NextConversion(workers[w], workers[w].conv + 1)
          ELSE FileDone(workers[w], FALSE, FALSE, <<"content">>)]
    /\ UNCHANGED <<disk, errorCounts>>
    /\ WorkerFrame
    /\ UNCHANGED <<written, waitMs, progress>>
    /\ UNCHANGED totalFiles
    /\ UNCHANGED lastIndex
    /\ currentFile' = currentFileAfter(workers'[w])
    /\ UNCHANGED loggingEnabled
    /\ UNCHANGED errorReports
    /\ UNCHANGED <<rvars, pvars, cvars>>

\* fs.writeFile resolves
WriteFile(w) ==
    /\ workers[w].step = "write"
    /\ plan[workers[w].chunk[workers[w].idx]] # "write"
    /\ disk' = [disk EXCEPT ![workers[w].chunk[workers[w].idx]] =
                   workers[w].currentContent]
    /\ workers' = [workers EXCEPT ![w] =
                      FileDone(workers[w], TRUE, workers[w].hasChanges, <<>>)]
    /\ written' = written \cup {workers[w].chunk[workers[w].idx]}
    /\ UNCHANGED errorCounts
    /\ WorkerFrame
    /\ UNCHANGED <<waitMs, progress>>
    /\ UNCHANGED totalFiles
    /\ UNCHANGED lastIndex
    /\ currentFile' = currentFileAfter(workers'[w])
    /\ UNCHANGED loggingEnabled
    /\ UNCHANGED errorReports
    /\ UNCHANGED <<rvars, pvars, cvars>>

\* fs.writeFile rejects
WriteFileFails(w) ==
    /\ workers[w].step = "write"
    /\ plan[workers[w].chunk[workers[w].idx]] = "write"
    /\ errorCounts' = recordError(errorCounts, FileSystemError)
    /\ workers' = [workers EXCEPT ![w].step = "writeFailed"]
    /\ UNCHANGED disk
    /\ WorkerFrame
    /\ UNCHANGED <<written, waitMs, progress>>
    /\ UNCHANGED totalFiles
    /\ UNCHANGED lastIndex
    /\ UNCHANGED currentFile
    /\ UNCHANGED loggingEnabled
    /\ errorReports' = logToErrorReport(errorReports, workers[w].chunk[workers[w].idx],
                                        currentFile)
    /\ UNCHANGED <<rvars, pvars, cvars>>

\* safeFileOperation('write') after recordError: null (processFile returns
\* changed: hasChanges) or throw
WriteFailedDecide(w) ==
    /\ workers[w].step = "writeFailed"
    /\ workers' = [workers EXCEPT ![w] =
          IF shouldContinueProcessing(errorCounts, FileSystemError)
          THEN FileDone(workers[w], TRUE, workers[w].hasChanges, <<>>)
          ELSE FileDone(workers[w], FALSE, FALSE, <<"file">>)]
    /\ UNCHANGED <<disk, errorCounts>>
    /\ WorkerFrame
    /\ UNCHANGED <<written, waitMs, progress>>
    /\ UNCHANGED totalFiles
    /\ UNCHANGED lastIndex
    /\ currentFile' = currentFileAfter(workers'[w])
    /\ UNCHANGED loggingEnabled
    /\ UNCHANGED errorReports
    /\ UNCHANGED <<rvars, pvars, cvars>>

\* ProgressAggregator.updateProgress for each WorkerResult of a batch, in
\* the order of the flattening loop, from a processedFiles of done
updateProgress(done, flat) ==
    [k \in 1..Len(flat) |-> [processed |-> done + k, total |-> Len(files),
                             currentFile |-> flat[k].filePath]]

RECURSIVE Flatten_lastChunkFirst(_)
\* a flattening that takes the chunks of a batch from the last to the first
Flatten_lastChunkFirst(ws) ==
    IF Len(ws) = 0 THEN <<>>
    ELSE Flatten_lastChunkFirst(Tail(ws)) \o Head(ws).results

RECURSIVE Flatten(_)
\* the WorkerResults of the chunks of a batch, chunk after chunk
Flatten(ws) ==
    IF Len(ws) = 0 THEN <<>> ELSE Head(ws).results \o Flatten(Tail(ws))

\* processFiles: the ProcessingResult pushed for a WorkerResult
ParallelResult(wr) ==
    IF wr.success
    THEN [success |-> TRUE, changes |-> <<IF wr.changed THEN 1 ELSE 0>>,
          error |-> <<>>]
    ELSE [success |-> FALSE, changes |-> <<>>, error |-> wr.error]

\* processFilesSequential: the ProcessingResult pushed for a WorkerResult
SequentialResult(wr) ==
    [success |-> wr.success, changes |-> <<IF wr.changed THEN 1 ELSE 0>>,
     error |-> wr.error]

\* processFiles: Promise.all of the batch resolves; the results are flattened
\* in chunk order and the loop goes to the next batch or returns
FinishBatch ==
    /\ mode = "parallel" /\ outcome = "pending"
    /\ workers # <<>>
    /\ \A w \in 1..Len(workers) : workers[w].step = "done"
    /\ LET flat == Flatten(workers)
       IN  /\ results' = results \o [k \in 1..Len(flat) |-> ParallelResult(flat[k])]
           /\ processedFiles' = processedFiles + Len(flat)
           /\ progress' = progress \o updateProgress(Len(progress), flat)
    /\ batch' = batch + maxWorkers
    /\ outcome' = IF batch + maxWorkers < Len(fileChunks) THEN "pending"
                  ELSE "returned"
    /\ workers' = <<>>
    /\ UNCHANGED <<mode, files, conversions, maxWorkers, chunkSize, plan, counts0,
                   disk, errorCounts>>
    /\ UNCHANGED <<written, waitMs>>
    /\ UNCHANGED totalFiles
    /\ UNCHANGED lastIndex
    /\ UNCHANGED currentFile
    /\ UNCHANGED loggingEnabled
    /\ UNCHANGED errorReports
    /\ UNCHANGED <<rvars, pvars, cvars>>

\* processFilesSequential counting only the files that succeeded
SequentialFinish_countsSuccesses ==
    /\ mode = "sequential" /\ outcome = "pending"
    /\ workers # <<>>
    /\ workers[1].step = "done"
    /\ results' = Append(results, SequentialResult(workers[1].results[1]))
    /\ processedFiles' = processedFiles +
                           (IF workers[1].results[1].success THEN 1 ELSE 0)
    /\ batch' = batch + 1
    /\ outcome' = IF batch + 1 < Len(files) THEN "pending" ELSE "returned"
    /\ workers' = <<>>
    /\ UNCHANGED <<mode, files, conversions, maxWorkers, chunkSize, plan, counts0,
                   disk, errorCounts>>
    /\ UNCHANGED <<written, waitMs, progress>>
    /\ UNCHANGED totalFiles
    /\ UNCHANGED lastIndex
    /\ UNCHANGED currentFile
    /\ UNCHANGED loggingEnabled
    /\ UNCHANGED errorReports
    /\ UNCHANGED <<rvars, pvars, cvars>>

\* processFilesSequential: processChunk([files[i]]) resolves
SequentialFinish ==
    /\ mode = "sequential" /\ outcome = "pending"
    /\ workers # <<>>
    /\ workers[1].step = "done"
    /\ results' = Append(results, SequentialResult(workers[1].results[1]))
    /\ processedFiles' = processedFiles + 1
    /\ batch' = batch + 1
    /\ outcome' = IF batch + 1 < Len(files) THEN "pending" ELSE "returned"
    /\ workers' = <<>>
    /\ UNCHANGED <<mode, files, conversions, maxWorkers, chunkSize, plan, counts0,
                   disk, errorCounts>>
    /\ UNCHANGED <<written, waitMs, progress>>
    /\ UNCHANGED totalFiles
    /\ UNCHANGED lastIndex
    /\ UNCHANGED currentFile
    /\ UNCHANGED loggingEnabled
    /\ UNCHANGED errorReports
    /\ UNCHANGED <<rvars, pvars, cvars>>

Next ==
    \/ MemoryPause
    \/ MemoryWait
    \/ StartBatch
    \/ SequentialStart
    \/ \E w \in 1..Len(workers) : ReadFile(w)
    \/ \E w \in 1..Len(workers) : ReadFileFails(w)
    \/ \E w \in 1..Len(workers) : ReadFailedDecide(w)
    \/ \E w \in 1..Len(workers) : ApplyConversion(w)
    \/ \E w \in 1..Len(workers) : ApplyConversionFails(w)
    \/ \E w \in 1..Len(workers) : ConversionFailedDecide(w)
    \/ \E w \in 1..Len(workers) : WriteFile(w)
    \/ \E w \in 1..Len(workers) : WriteFileFails(w)
    \/ \E w \in 1..Len(workers) : WriteFailedDecide(w)
    \/ FinishBatch
    \/ SequentialFinish

Spec == Init /\ [][Next]_vars

----------------------------------------------------------------------------
(* ProcessFilesSpec: the calls of processFiles with two workers in a       *)
(* session with errors on record, under the scheduling of the event loop:  *)
(* a continuation that can run (a resolved read, rule call or write, an    *)
(* expired timer, the resolution of Promise.all) does run.  The heap usage *)
(* read by MemoryMonitor is free at every read: no fairness is asked of    *)
(* it.                                                                     *)

ProcessFilesInit ==
    /\ Init
    /\ mode = "parallel"
    /\ maxWorkers = 2
    /\ counts0.file = errorThreshold - 2

ProcessFilesNext ==
    \/ MemoryPause
    \/ MemoryWait
    \/ StartBatch
    \/ \E w \in 1..Len(workers) : ReadFile(w)
    \/ \E w \in 1..Len(workers) : ReadFileFails(w)
    \/ \E w \in 1..Len(workers) : ReadFailedDecide(w)
    \/ \E w \in 1..Len(workers) : ApplyConversion(w)
    \/ \E w \in 1..Len(workers) : ApplyConversionFails(w)
    \/ \E w \in 1..Len(workers) : ConversionFailedDecide(w)
    \/ \E w \in 1..Len(workers) : WriteFile(w)
    \/ \E w \in 1..Len(workers) : WriteFileFails(w)
    \/ \E w \in 1..Len(workers) : WriteFailedDecide(w)
    \/ FinishBatch

\* a rule call is pending in some processChunk and will return
ApplyConversionReady ==
    \E w \in 1..Len(workers) :
        /\ workers[w].step = "rule"
        /\ ~RuleFails(plan[workers[w].chunk[workers[w].idx]], workers[w].conv)

\* every continuation but the return of a rule call
OtherContinuations ==
    \/ MemoryPause
    \/ MemoryWait
    \/ StartBatch
    \/ \E w \in 1..Len(workers) : ReadFile(w)
    \/ \E w \in 1..Len(workers) : ReadFileFails(w)
    \/ \E w \in 1..Len(workers) : ReadFailedDecide(w)
    \/ \E w \in 1..Len(workers) : ApplyConversionFails(w)
    \/ \E w \in 1..Len(workers) : ConversionFailedDecide(w)
    \/ \E w \in 1..Len(workers) : WriteFile(w)
    \/ \E w \in 1..Len(workers) : WriteFileFails(w)
    \/ \E w \in 1..Len(workers) : WriteFailedDecide(w)
    \/ FinishBatch

\* weak fairness of the event loop.  The second conjunct is
\* WF_vars(\E w : ApplyConversion(w)) written out with the action's guard in
\* the place of ENABLED: every step of ApplyConversion changes workers.
EventLoopFairness ==
    /\ WF_vars(OtherContinuations)
    /\ \/ []<>(~ApplyConversionReady)
       \/ []<><<\E w \in 1..Len(workers) : ApplyConversion(w)>>_vars

ProcessFilesSpec ==
    ProcessFilesInit /\ [][ProcessFilesNext]_vars /\ EventLoopFairness

----------------------------------------------------------------------------
(* OptionsSpec: processFiles called with options.maxWorkers below 1.  The  *)
(* options are destructured with defaults for undefined values only and    *)
(* used as they are.                                                       *)

\* most iterations of the batch loop with an empty batch that are followed
MaxEmptyBatches == 2

InvalidWorkerCounts == {0, -1}

OptionsInit ==
    /\ mode = "parallel"
    /\ files = [i \in 1..NumFiles |-> i]
    /\ conversions \in ConversionLists
    /\ maxWorkers \in InvalidWorkerCounts
    /\ chunkSize \in ChunkSizes
    /\ plan \in [1..NumFiles -> Faults]
    /\ counts0 = [file |-> errorThreshold - 2, content |-> errorThreshold - 2,
                  git |-> 0, config |-> 0]
    /\ errorCounts = counts0
    /\ disk = [p \in 1..NumFiles |-> InitialContent(p)]
    /\ processedFiles = 0
    /\ batch = 0
    /\ workers = <<>>
    /\ results = <<>>
    /\ outcome = "pending"
    /\ written = {}
    /\ waitMs = <<>>
    /\ progress = <<>>
    /\ totalFiles = 0
    /\ lastIndex = 0
    /\ currentFile = <<>>
    /\ loggingEnabled = FALSE
    /\ errorReports = <<>>
    /\ RulesIdle
    /\ PatternIdle

\* processFiles: an iteration of the batch loop whose slice is empty:
\* Promise.all([]) resolves, nothing is flattened, i += maxWorkers
EmptyBatch ==
    /\ mode = "parallel" /\ outcome = "pending"
    /\ workers = <<>>
    /\ batch < Len(fileChunks)
    /\ Len(currentBatch) = 0
    /\ batch + maxWorkers >= 0 - MaxEmptyBatches
    /\ batch' = batch + maxWorkers
    /\ outcome' = IF batch + maxWorkers < Len(fileChunks) THEN "pending"
                  ELSE "returned"
    /\ waitMs' = <<>>
    /\ UNCHANGED <<mode, files, conversions, maxWorkers, chunkSize, plan, counts0,
                   disk, errorCounts, processedFiles, workers, results,
                   written, progress, totalFiles, lastIndex, currentFile,
                   loggingEnabled, errorReports>>
    /\ UNCHANGED <<rvars, pvars, cvars>>

OptionsNext ==
    \/ MemoryPause
    \/ MemoryWait
    \/ StartBatch
    \/ EmptyBatch
    \/ \E w \in 1..Len(workers) : ReadFile(w)
    \/ \E w \in 1..Len(workers) : ReadFileFails(w)
    \/ \E w \in 1..Len(workers) : ReadFailedDecide(w)
    \/ \E w \in 1..Len(workers) : ApplyConversion(w)
    \/ \E w \in 1..Len(workers) : ApplyConversionFails(w)
    \/ \E w \in 1..Len(workers) : ConversionFailedDecide(w)
    \/ \E w \in 1..Len(workers) : WriteFile(w)
    \/ \E w \in 1..Len(workers) : WriteFileFails(w)
    \/ \E w \in 1..Len(workers) : WriteFailedDecide(w)
    \/ FinishBatch

OptionsSpec ==
    OptionsInit /\ [][OptionsNext]_vars /\ EventLoopFairness /\ WF_vars(EmptyBatch)

----------------------------------------------------------------------------
(* processFiles in a session whose error log is enabled                    *)

\* processFiles with two workers after ErrorHandler.initSession has enabled
\* the log
ReportInit ==
    /\ SchedulerInit /\ RulesIdle /\ PatternIdle
    /\ loggingEnabled = TRUE
    /\ mode = "parallel"
    /\ maxWorkers = 2
    /\ counts0.file = errorThreshold - 2

ReportNext == ProcessFilesNext

ReportSpec == ReportInit /\ [][ReportNext]_vars

----------------------------------------------------------------------------
(* run: the command called more than once in one process.  The state of    *)
(* ErrorHandler is static: what a call of run leaves in it is what the     *)
(* next call finds.                                                        *)

\* calls of run in one process
MaxRuns == 4

\* memory available to the process is never the reason to go sequential
enoughMemory == TRUE

\* ParallelProcessor.autoProcessFiles: the path taken for a file list
autoProcessFiles(fs) ==
    IF Len(fs) > 5 /\ enoughMemory THEN "parallel" ELSE "sequential"

\* the first call of run in a fresh process: the static initializers of
\* ErrorHandler hold
SessionInit ==
    /\ Init
    /\ mode = autoProcessFiles(files)
    /\ counts0 = [file |-> 0, content |-> 0, git |-> 0, config |-> 0]

\* run called again after it has returned, over the same paths: a new call of
\* autoProcessFiles; run does not call ErrorHandler.initSession
run ==
    /\ outcome = "returned"
    /\ processedFiles < MaxRuns * Len(files)
    /\ mode' = autoProcessFiles(files)
    /\ counts0' = errorCounts
    /\ batch' = 0
    /\ workers' = <<>>
    /\ results' = <<>>
    /\ outcome' = "pending"
    /\ written' = {}
    /\ waitMs' = <<>>
    /\ progress' = <<>>
    /\ UNCHANGED <<files, conversions, maxWorkers, chunkSize, plan, disk,
                   errorCounts, processedFiles, totalFiles, lastIndex, currentFile,
                   loggingEnabled, errorReports>>
    /\ UNCHANGED <<rvars, pvars, cvars>>

SessionNext ==
    \/ SequentialStart
    \/ \E w \in 1..Len(workers) : ReadFile(w)
    \/ \E w \in 1..Len(workers) : ReadFileFails(w)
    \/ \E w \in 1..Len(workers) : ReadFailedDecide(w)
    \/ \E w \in 1..Len(workers) : ApplyConversion(w)
    \/ \E w \in 1..Len(workers) : ApplyConversionFails(w)
    \/ \E w \in 1..Len(workers) : ConversionFailedDecide(w)
    \/ \E w \in 1..Len(workers) : WriteFile(w)
    \/ \E w \in 1..Len(workers) : WriteFileFails(w)
    \/ \E w \in 1..Len(workers) : WriteFailedDecide(w)
    \/ SequentialFinish
    \/ run

SessionSpec == SessionInit /\ [][SessionNext]_vars

----------------------------------------------------------------------------
(* A run in a session opened with ErrorHandler.initSession(N), closed with *)
(* ErrorHandler.generateReport                                             *)

\* the faults of a path, with the one of a content no rule can handle: every
\* requested rule fails on it
SummaryFaults == Faults \cup {"rules"}

\* the state after ErrorHandler.initSession(files.length), the log disabled
\* by configuration
SummaryInit ==
    /\ SchedulerInitOver(SummaryFaults, NumFiles)
    /\ counts0 = [file |-> 0, content |-> 0, git |-> 0, config |-> 0]
    /\ loggingEnabled = FALSE
    /\ RulesIdle /\ PatternIdle

\* the steps of Next that such a session can take: NumFiles paths record fewer
\* than errorThreshold errors, so a rule never rethrows and safeContentOperation
\* has nothing to decide
SummaryNext ==
    \/ MemoryPause
    \/ MemoryWait
    \/ StartBatch
    \/ SequentialStart
    \/ \E w \in 1..Len(workers) : ReadFile(w)
    \/ \E w \in 1..Len(workers) : ReadFileFails(w)
    \/ \E w \in 1..Len(workers) : ReadFailedDecide(w)
    \/ \E w \in 1..Len(workers) : ApplyConversion(w)
    \/ \E w \in 1..Len(workers) : ApplyConversionFails(w)
    \/ \E w \in 1..Len(workers) : WriteFile(w)
    \/ \E w \in 1..Len(workers) : WriteFileFails(w)
    \/ \E w \in 1..Len(workers) : WriteFailedDecide(w)
    \/ FinishBatch
    \/ SequentialFinish

SummarySpec == SummaryInit /\ [][SummaryNext]_vars

----------------------------------------------------------------------------
(* Vocabulary of the rule claims, defined on the token text itself and not *)
(* through the operators of the rules                                      *)

\* 1-based position of the last atom a of t, 0 when there is none
LastPos(t, a) ==
    IF \E i \in 1..Len(t) : t[i] = a
    THEN CHOOSE i \in 1..Len(t) : t[i] = a /\ \A j \in (i + 1)..Len(t) : t[j] # a
    ELSE 0

\* the variant prefix of a token: everything up to and including its last ':'
VariantOf(t) == SubSeq(t, 1, LastPos(t, ":"))

\* the base class name of a token: what follows its last ':'
BaseOf(t) == SubSeq(t, LastPos(t, ":") + 1, Len(t))

\* the suffix of a base name after its last '-'
LastSegment(base) == SubSeq(base, LastPos(base, "-") + 1, Len(base))

\* the entire text of a base name after the prefix "<p>-"
WholeValue(base, p) == SubSeq(base, Len(p) + 2, Len(base))

\* the two axis prefixes and the merged prefix of an axis-pair rule
AxisRules == {"size", "margin", "padding", "gap"}

Shape(name) ==
    CASE name = "size"    -> [x |-> <<"w">>, y |-> <<"h">>, merged |-> <<"size">>]
      [] name = "margin"  -> [x |-> <<"mx">>, y |-> <<"my">>, merged |-> <<"m">>]
      [] name = "padding" -> [x |-> <<"px">>, y |-> <<"py">>, merged |-> <<"p">>]
      [] name = "gap"     -> [x |-> <<"space", "-", "x">>, y |-> <<"space", "-", "y">>,
                              merged |-> <<"gap">>]

HasPrefix(base, p) == StartsWith(base, p \o <<"-">>)

Count(seq, x) == Cardinality({i \in 1..Len(seq) : seq[i] = x})

Elems(seq) == {seq[i] : i \in 1..Len(seq)}

\* the tokens of the input and of the first output of the rule under study
InTokens  == TokensOf(rin)
OutTokens == TokensOf(rout1.newContent)

\* the tokens of which a holds more copies than b
MoreCopies(a, b) == {t \in Elems(a) : Count(a, t) > Count(b, t)}

\* tokens of which the output holds more copies than the input: the merged tokens
NewTokens == MoreCopies(OutTokens, InTokens)

\* input tokens of which the output holds fewer copies
RemovedTokens == MoreCopies(InTokens, OutTokens)

\* a is an x token and b a y token of the rule, in one variant group, whose
\* values (suffix after the last '-') are the same non-empty text
EqualValuePair(name, a, b) ==
    /\ VariantOf(a) = VariantOf(b)
    /\ HasPrefix(BaseOf(a), Shape(name).x)
    /\ HasPrefix(BaseOf(b), Shape(name).y)
    /\ LastSegment(BaseOf(a)) = LastSegment(BaseOf(b))
    /\ LastSegment(BaseOf(a)) # <<>>

\* the layout gate of the gap rule, open for every other rule
GateOpen(name, tokens) ==
    name = "gap" =>
        \E t \in Elems(tokens) :
            \/ BaseOf(t) \in {<<"flex">>, <<"grid">>}
            \/ HasPrefix(BaseOf(t), <<"flex">>)
            \/ HasPrefix(BaseOf(t), <<"grid">>)

W4 == <<"w", "-", "4">>
H4 == <<"h", "-", "4">>
H2 == <<"h", "-", "2">>

(* C4: every rule is idempotent: applying a rule to its own output reports *)
(* changed = false, also for class lists that hold a token more than once. *)
(* Stated as the claim states it; the rules break it.                      *)
C4_Idempotent == rstage = "twice" => rout2.changed = FALSE

(* C8: an axis-pair rule merges two tokens only if their values (the       *)
(* suffix after the last '-') are textually equal: every merged token is   *)
(* variant + merged prefix + "-" + value for an x token and a y token of   *)
(* one variant group with that same value; with no such pair in the        *)
(* occurrence the content comes back unchanged with changed = false; and   *)
(* "w-4 h-2" stays while "w-4 h-4" becomes "size-4".                       *)
C8_MergeOnlyEqualValues ==
    LET ins == Elems(InTokens)
        new == NewTokens
    IN
        (rstage # "input" /\ rule \in AxisRules) =>
            /\ \A t \in new :
                   \E a \in ins, b \in ins :
                       /\ EqualValuePair(rule, a, b)
                       /\ t = VariantOf(a) \o Shape(rule).merged \o <<"-">>
                                  \o LastSegment(BaseOf(a))
            /\ (~ \E a \in ins, b \in ins : EqualValuePair(rule, a, b))
                   => (rout1.changed = FALSE /\ rout1.newContent = rin)
            /\ (rule = "size" /\ rin = Markup(<<W4, H2>>))
                   => (rout1.changed = FALSE /\ rout1.newContent = rin)
            /\ (rule = "size" /\ rin = Markup(<<W4, H4>>))
                   => (rout1.changed /\ rout1.newContent = Markup(<<<<"size", "-", "4">>>>))

C8_Witness ==
    /\ rstage = "once"
    /\ rule = "size"
    /\ rin = Markup(<<W4, H2, H4>>)
    /\ rout1.changed
    /\ rout1.newContent = Markup(<<H2, <<"size", "-", "4">>>>)

(* C9: tokens w-V1 and h-V2, V1 and V2 being the entire text after the     *)
(* prefix, are merged only when V1 = V2 as whole strings, and the merged   *)
(* token is size-V1 with the whole value kept; likewise mx/my, px/py and   *)
(* space-x/space-y.  Stated as the claim states it; the rules break it for *)
(* values that hold a '-'.                                                 *)
C9_WholeValueMerge ==
    LET ins == Elems(InTokens)
        new == NewTokens
    IN
        (rstage # "input" /\ rule \in AxisRules) =>
            \A t \in new :
                \E a \in ins, b \in ins :
                    /\ VariantOf(a) = VariantOf(b)
                    /\ HasPrefix(BaseOf(a), Shape(rule).x)
                    /\ HasPrefix(BaseOf(b), Shape(rule).y)
                    /\ WholeValue(BaseOf(a), Shape(rule).x) = WholeValue(BaseOf(b), Shape(rule).y)
                    /\ t = VariantOf(a) \o Shape(rule).merged \o <<"-">>
                               \o WholeValue(BaseOf(a), Shape(rule).x)

(* C10: no rule merges two tokens whose variant prefixes differ: every     *)
(* merged token carries the variant prefix shared by two tokens it         *)
(* replaces, every replaced token has that prefix in common with a merged  *)
(* token, and "sm:mx-4 md:my-4" is left unchanged.                         *)
C10_NoCrossVariantMerge ==
    LET new == NewTokens
        removed == RemovedTokens
    IN
        (rstage # "input") =>
            /\ \A t \in new :
                   \E a \in removed, b \in removed :
                       /\ a # b
                       /\ VariantOf(a) = VariantOf(t)
                       /\ VariantOf(b) = VariantOf(t)
            /\ \A a \in removed :
                   /\ \E t \in new : VariantOf(t) = VariantOf(a)
                   /\ \E b \in removed : b # a /\ VariantOf(b) = VariantOf(a)
            /\ (rule = "margin"
                  /\ rin = Markup(<<<<"sm", ":", "mx", "-", "4">>, <<"md", ":", "my", "-", "4">>>>))
                   => (rout1.changed = FALSE /\ rout1.newContent = rin)

C10_Witness ==
    /\ rstage = "once"
    /\ rule = "margin"
    /\ rin = Markup(<<<<"sm", ":", "mx", "-", "4">>, <<"md", ":", "my", "-", "4">>,
                      <<"sm", ":", "my", "-", "4">>>>)
    /\ rout1.newContent = Markup(<<<<"md", ":", "my", "-", "4">>, <<"sm", ":", "m", "-", "4">>>>)

----------------------------------------------------------------------------
(* Vocabulary of the scheduler claims: what processFile does to one path   *)
(* when nothing else runs in between, and processFilesSequential as a fold *)
(* of it over the list                                                     *)

Bump(counts, kind) == [counts EXCEPT ![kind] = counts[kind] + 1]

RECURSIVE RulesAlone(_, _, _, _, _)
\* the rule loop of processFile from rule k on: ok is FALSE when a rule's
\* error is thrown out of safeContentOperation
RulesAlone(path, k, content, changed, counts) ==
    IF k > Len(conversions)
    THEN [ok |-> TRUE, content |-> content, changed |-> changed, counts |-> counts]
    ELSE IF RuleFails(plan[path], k)
    THEN IF counts.content + 1 < errorThreshold
         THEN RulesAlone(path, k + 1, content, changed, Bump(counts, "content"))
         ELSE [ok |-> FALSE, content |-> content, changed |-> changed,
               counts |-> Bump(Bump(counts, "content"), "content")]
    ELSE LET r == CONVERSIONS(conversions[k], content, path)
         IN  RulesAlone(path, k + 1, r.newContent, changed \/ r.changed, counts)

\* processChunk([path]) from the counters counts: the content left on disk,
\* the WorkerResult and the counters afterwards
FileAlone(path, counts) ==
    LET orig == InitialContent(path)
        r == RulesAlone(path, 1, orig, FALSE, counts)
        f == Bump(counts, "file")
    IN  IF plan[path] = "read"
        THEN [content |-> orig, success |-> f.file < errorThreshold,
              changed |-> FALSE, counts |-> f]
        ELSE IF ~r.ok
        THEN [content |-> orig, success |-> FALSE, changed |-> FALSE,
              counts |-> r.counts]
        ELSE IF ~r.changed
        THEN [content |-> orig, success |-> TRUE, changed |-> FALSE,
              counts |-> r.counts]
        ELSE IF plan[path] = "write"
        THEN [content |-> orig, success |-> r.counts.file + 1 < errorThreshold,
              changed |-> r.counts.file + 1 < errorThreshold,
              counts |-> Bump(r.counts, "file")]
        ELSE [content |-> r.content, success |-> TRUE, changed |-> TRUE,
              counts |-> r.counts]

RECURSIVE SequentialOutcomes(_, _)
\* the outcomes of files[i..] when processed one after the other
SequentialOutcomes(i, counts) ==
    IF i > Len(files) THEN <<>>
    ELSE LET o == FileAlone(files[i], counts)
         IN  <<o>> \o SequentialOutcomes(i + 1, o.counts)

\* the contents of the listed paths, in list order
Contents(outcomes) == [i \in 1..Len(outcomes) |-> outcomes[i].content]

DiskContents == [i \in 1..Len(files) |-> disk[files[i]]]

Returned == outcome = "returned"

\* no counter has reached the threshold: no error of the call was escalated
BelowThreshold ==
    errorCounts.file < errorThreshold /\ errorCounts.content < errorThreshold

----------------------------------------------------------------------------
----------------------------------------------------------------------------
LastResult(wk) == wk.results[Len(wk.results)]

----------------------------------------------------------------------------
\* the ProcessingResult of path number i is the one processFile gives the
\* path when it is processed alone, from the counters of the call's start
AsAlone(i) ==
    LET o == FileAlone(files[i], counts0)
    IN  /\ disk[files[i]] = o.content
        /\ results[i].success = o.success
        /\ o.success => results[i].changes = <<IF o.changed THEN 1 ELSE 0>>

----------------------------------------------------------------------------
(* C5: when a rule fails on a file, the file keeps its original content:   *)
(* nothing half-transformed is written.                                    *)
C5_NoPartialWrite ==
    \A p \in 1..NumFiles :
        plan[p] \in {"rule1", "rule2"} => disk[p] = InitialContent(p)

----------------------------------------------------------------------------
(* C6: an error after which processing must not continue aborts the run:   *)
(* it propagates out of processFiles, so a call that returns normally has  *)
(* met no such error.                                                      *)
C6_EscalationAbortsRun ==
    Returned => \A i \in 1..Len(results) : results[i].success

----------------------------------------------------------------------------
(* C7: shouldContinueProcessing is true for a recoverable error while at   *)
(* most errorThreshold errors of its kind are on record, false for a       *)
(* non-recoverable error and once the count exceeds errorThreshold.        *)
C7_ContinueUpToThreshold ==
    \A kind \in {"file", "content"} : \A rec \in BOOLEAN :
        shouldContinueProcessing(errorCounts, [type |-> kind, recoverable |-> rec])
            = (rec /\ errorCounts[kind] <= errorThreshold)

----------------------------------------------------------------------------
RECURSIVE IsSubseq(_, _)
\* a is b with some elements left out
IsSubseq(a, b) ==
    IF Len(a) = 0 THEN TRUE
    ELSE IF Len(b) = 0 THEN FALSE
    ELSE IF Head(a) = Head(b) THEN IsSubseq(Tail(a), Tail(b))
    ELSE IsSubseq(a, Tail(b))

\* out is kept \o added: kept are the tokens of in that survive, in their
\* original order, added are merged tokens only
KeptThenMerged(in, out) ==
    \E k \in 0..Len(out) :
        LET kept == SubSeq(out, 1, k)
        IN  /\ IsSubseq(kept, in)
            /\ \A t \in Elems(out) :
                   Count(kept, t) = Min(Count(in, t), Count(out, t))
            /\ \A j \in (k + 1)..Len(out) : Count(out, out[j]) > Count(in, out[j])

(* C11: in every rewritten occurrence the tokens that were not merged keep *)
(* their original relative order and every merged token comes after all    *)
(* untouched tokens; "p-4 w-4 h-4 h-2" becomes "p-4 h-2 size-4".           *)
C11_OrderPreserved ==
    LET in == InTokens
        out == OutTokens
    IN  rstage # "input" => KeptThenMerged(in, out)

\* a merge between untouched tokens: the untouched ones close up in order
C11_Witness ==
    /\ rstage = "once"
    /\ rule = "size"
    /\ rin = Markup(<< <<"p", "-", "4">>, W4, H4, H2 >>)
    /\ rout1.newContent = Markup(<< <<"p", "-", "4">>, H2, <<"size", "-", "4">> >>)

----------------------------------------------------------------------------
SpaceX4 == <<"space", "-", "x", "-", "4">>
SpaceY4 == <<"space", "-", "y", "-", "4">>

(* C12: the gap rule changes an occurrence only if its token list holds a  *)
(* layout token (base name flex or grid, or starting with flex- or grid-)  *)
(* under any variant; without one the occurrence is left untouched, even   *)
(* with space-x and space-y tokens of equal values.                        *)
C12_GapGate ==
    LET in == InTokens
    IN  (rstage # "input" /\ rule = "gap") =>
            /\ rout1.changed => GateOpen("gap", in)
            /\ ~GateOpen("gap", in) => rout1.newContent = rin
            /\ rin = Markup(<<SpaceX4, SpaceY4>>) =>
                   (rout1.changed = FALSE /\ rout1.newContent = rin)

\* equal space-x / space-y values and no layout token: nothing is merged
C12_Witness ==
    /\ rstage = "once"
    /\ rule = "gap"
    /\ rin = Markup(<< <<"p", "-", "4">>, SpaceX4, SpaceY4 >>)
    /\ rout1.changed = FALSE
    /\ rout1.newContent = rin

----------------------------------------------------------------------------
\* the color roles of the color-opacity rule
ColorRoles == {"bg", "text", "border", "ring", "divide", "placeholder"}

\* a is a color token of a role and b that role's opacity token with a
\* non-empty value, both in one variant group
ColorOpacityPair(a, b) ==
    /\ VariantOf(a) = VariantOf(b)
    /\ \E role \in ColorRoles :
          /\ HasPrefix(BaseOf(a), <<role>>)
          /\ ~HasPrefix(BaseOf(a), <<role, "-", "opacity">>)
          /\ ~Includes(BaseOf(a), "/")
          /\ HasPrefix(BaseOf(b), <<role, "-", "opacity">>)
    /\ LastSegment(BaseOf(b)) # <<>>

BgRed     == <<"bg", "-", "red", "-", "500">>
BgOpacity == <<"bg", "-", "opacity", "-", "50">>
BgRed50   == <<"bg", "-", "red", "-", "500", "/", "50">>

(* C13: the color-opacity rule changes an occurrence only if one variant   *)
(* group holds a color token of a role and that role's opacity token with  *)
(* a non-empty value; every merged token is variant prefix + color base    *)
(* name + "/" + opacity value; an opacity token alone, or with a color     *)
(* already in slash form, leaves the content unchanged.                    *)
C13_ColorOpacityMerge ==
    LET ins == Elems(InTokens)
        new == NewTokens
    IN  (rstage # "input" /\ rule = "color-opacity") =>
            /\ \A t \in new :
                   \E a \in ins, b \in ins :
                       /\ ColorOpacityPair(a, b)
                       /\ t = VariantOf(a) \o BaseOf(a) \o <<"/">>
                                  \o LastSegment(BaseOf(b))
            /\ (~ \E a \in ins, b \in ins : ColorOpacityPair(a, b))
                   => (rout1.changed = FALSE /\ rout1.newContent = rin)
            /\ rin \in {Markup(<<BgOpacity>>), Markup(<<BgRed50, BgOpacity>>)}
                   => (rout1.changed = FALSE /\ rout1.newContent = rin)
            /\ rin = Markup(<<BgRed, BgOpacity>>)
                   => (rout1.changed /\ rout1.newContent = Markup(<<BgRed50>>))

\* a pair merged in the unprefixed group, the opacity token of another
\* variant group left alone
C13_Witness ==
    /\ rstage = "once"
    /\ rule = "color-opacity"
    /\ rin = Markup(<< <<"hover", ":", "bg", "-", "opacity", "-", "50">>,
                       BgRed, BgOpacity >>)
    /\ rout1.changed
    /\ rout1.newContent =
           Markup(<< <<"hover", ":", "bg", "-", "opacity", "-", "50">>, BgRed50 >>)

----------------------------------------------------------------------------
RECURSIVE Weave(_, _, _)
\* the content read left to right from offset pos: a span that has a
\* replacement gives its reconstructed attribute, every other character is
\* copied
Weave(content, pos, reps) ==
    IF pos >= Len(content) THEN <<>>
    ELSE IF \E i \in 1..Len(reps) : reps[i].original.startIndex = pos
    THEN LET i == CHOOSE k \in 1..Len(reps) : reps[k].original.startIndex = pos
         IN  reconstructHTML(reps[i].newClasses, reps[i].original.match)
                 \o Weave(content, reps[i].original.endIndex, reps)
    ELSE <<content[pos + 1]>> \o Weave(content, pos + 1, reps)

\* the matched spans of the replacements do not overlap pairwise
NonOverlapping(reps) ==
    \A i, j \in 1..Len(reps) :
        i # j => \/ reps[i].original.endIndex <= reps[j].original.startIndex
                 \/ reps[j].original.endIndex <= reps[i].original.startIndex

(* C14: applying replacements for pairwise non-overlapping matches changes *)
(* only the text inside the matched spans: every character outside all     *)
(* matched spans is kept, in order, whatever the length change and         *)
(* whatever order the replacements are supplied in.                        *)
C14_OutsideSpansKept ==
    (pnew # <<>> /\ NonOverlapping(preplacements)) =>
        pnew[1] = Weave(pcontent, 0, preplacements)

\* two preplacements supplied in ascending order, the first one changing the
\* length of the content before the second span
C14_Witness ==
    /\ pnew # <<>>
    /\ Len(preplacements) >= 2
    /\ NonOverlapping(preplacements)
    /\ preplacements[1].original.startIndex < preplacements[2].original.startIndex
    /\ Len(reconstructHTML(preplacements[1].newClasses, preplacements[1].original.match))
           # Len(preplacements[1].original.match)
    /\ pnew[1] # pcontent

----------------------------------------------------------------------------
RECURSIVE InOrder(_, _, _)
\* the requested rules from rule k on, in the caller's order, each applied
\* to the previous rule's output: the last output and whether any rule
\* reported a change
InOrder(path, k, content) ==
    IF k > Len(conversions) THEN [content |-> content, changed |-> FALSE]
    ELSE LET r    == CONVERSIONS(conversions[k], content, path)
             rest == InOrder(path, k + 1, r.newContent)
         IN  [content |-> rest.content, changed |-> r.changed \/ rest.changed]

----------------------------------------------------------------------------
(* C16: with valid options processFiles always terminates with a result    *)
(* for every file, even if the memory usage stays above the ceiling        *)
(* forever: the wait before a batch never lasts longer than maxWaitMs and  *)
(* the batch is then started regardless.                                   *)
C16_TerminatesDespiteMemory ==
    /\ [](waitMs # <<>> => waitMs[1] <= maxWaitMs)
    /\ [](waitMs = <<maxWaitMs>> => ENABLED StartBatch /\ ~ENABLED MemoryWait)
    /\ <>(Returned /\ Len(results) = Len(files))

\* the wait before a later batch has lasted maxWaitMs with the usage above
\* the threshold at every read
C16_Witness == waitMs = <<maxWaitMs>> /\ batch > 0 /\ Len(results) < Len(files)

----------------------------------------------------------------------------
\* the processChunk calls that have not resolved
Running == {w \in 1..Len(workers) : workers[w].step # "done"}

\* the files of the running processChunk calls on which processFile is
\* pending, as (worker, position in the chunk)
InProgress == {<<w, workers[w].idx>> : w \in Running}

(* C17: at every moment at most maxWorkers chunks are being processed, and *)
(* within each chunk at most one file at a time, the files of a chunk      *)
(* being started in chunk order: the files before the current one have     *)
(* their results, in chunk order, and no later file has been started.      *)
C17_WorkerLimit ==
    /\ [](/\ Cardinality(Running) <= maxWorkers
          /\ Len(workers) <= maxWorkers
          /\ \A w \in 1..Len(workers) :
                LET wk == workers[w]
                IN  /\ Cardinality({f \in InProgress : f[1] = w}) <= 1
                    /\ wk.idx \in 1..(Len(wk.chunk) + 1)
                    /\ wk.step # "done" => wk.idx <= Len(wk.chunk)
                    /\ Len(wk.results) = wk.idx - 1
                    /\ \A k \in 1..Len(wk.results) :
                           wk.results[k].filePath = wk.chunk[k])
    /\ [][\A w \in 1..Len(workers) :
              Len(workers') = Len(workers) =>
                  workers'[w].idx \in {workers[w].idx, workers[w].idx + 1}]_vars

\* two workers, both busy, a third chunk waiting for the next batch
C17_Witness ==
    /\ mode = "parallel" /\ maxWorkers = 2 /\ chunkSize = 1
    /\ Cardinality(Running) = 2
    /\ batch + maxWorkers < Len(fileChunks)

----------------------------------------------------------------------------
RECURSIVE Concat(_)
\* the sequences of a sequence, one after the other
Concat(seqs) == IF Len(seqs) = 0 THEN <<>> ELSE Head(seqs) \o Concat(Tail(seqs))

\* the path on which the processFile of a running processChunk is pending
CurrentFile(w) == workers[w].chunk[workers[w].idx]

(* C18: chunking partitions the input: the chunks concatenated in order    *)
(* give back the input list, every chunk but possibly the last holds       *)
(* exactly chunkSize paths (the last one between 1 and chunkSize), and for *)
(* an input without duplicates no path is processed by two tasks at the    *)
(* same time.                                                              *)
C18_ChunksPartition ==
    LET chunks == fileChunks
    IN  mode = "parallel" =>
            /\ Concat(chunks) = files
            /\ \A k \in 1..(Len(chunks) - 1) : Len(chunks[k]) = chunkSize
            /\ Len(chunks) > 0 => Len(chunks[Len(chunks)]) \in 1..chunkSize
            /\ \A w \in 1..Len(workers) : workers[w].chunk = chunks[batch + w]
            /\ \A v \in Running, w \in Running :
                   v # w => CurrentFile(v) # CurrentFile(w)

\* two tasks at work on the chunks <<1, 2>> and <<3>> of a list of three
C18_Witness ==
    /\ mode = "parallel" /\ chunkSize = 2
    /\ Len(fileChunks) = 2 /\ Len(fileChunks[2]) = 1
    /\ Running = {1, 2}
    /\ CurrentFile(1) = 2 /\ CurrentFile(2) = 3

----------------------------------------------------------------------------
\* the paths whose WorkerResult has been pushed to the result list
Completed == {files[i] : i \in 1..Len(results)}

(* C19: in the concurrent and in the sequential path the progress callback *)
(* is invoked exactly once per file, after that file has completed, with a *)
(* completed-count that takes the values 1, 2, ..., N in invocation order, *)
(* so that the last invocation reports N of N.                             *)
C19_ProgressOncePerCompletedFile ==
    /\ \A k \in 1..Len(progress) :
          /\ progress[k].processed = k
          /\ progress[k].total = Len(files)
          /\ progress[k].currentFile \in Completed
          /\ \A j \in 1..Len(progress) :
                 j # k => progress[j].currentFile # progress[k].currentFile
    /\ Returned =>
          /\ Len(progress) = Len(files)
          /\ progress[Len(progress)].processed = Len(files)

----------------------------------------------------------------------------
(* C20: a run over N files increases the session's processed-file count by *)
(* exactly N, for every concurrency and chunk-size setting, every          *)
(* interleaving of the file tasks and whether or not files fail.  The      *)
(* count is 0 when the call is made: it is the number of results pushed so *)
(* far, and N when the call returns.                                       *)
C20_ProcessedCount ==
    /\ processedFiles = Len(results)
    /\ processedFiles <= Len(files)
    /\ Returned => processedFiles = Len(files)

\* a returned call of processFiles with two workers and a failed file
C20_Witness ==
    /\ Returned
    /\ mode = "parallel" /\ maxWorkers = 2
    /\ processedFiles = NumFiles
    /\ \E i \in 1..Len(results) : ~results[i].success
    /\ \E i \in 1..Len(results) : results[i].success

----------------------------------------------------------------------------
(* C21: processFiles called with a concurrency below 1 aborts at once with *)
(* a configuration error: it hands no chunk to a file task, pushes no      *)
(* result, writes no file, and the call ends rejected.                     *)
C21_InvalidOptionsRejected ==
    /\ [](maxWorkers < 1 =>
             /\ workers = <<>> /\ results = <<>> /\ written = {}
             /\ outcome # "returned")
    /\ <>(outcome = "rejected")

----------------------------------------------------------------------------
\* the workers on a rule whose application fails inside the rule
FailingRule == {w \in 1..Len(workers) :
                   /\ workers[w].step = "rule"
                   /\ RuleFails(plan[CurrentFile(w)], workers[w].conv)}

\* the rule of worker w has returned {newContent: content, changed: false}:
\* processFile goes on after it with the content and the flag it had
ReturnedOriginal(w) ==
    /\ errorCounts' = Bump(errorCounts, "content")
    /\ workers'[w] = NextConversion(workers[w], workers[w].conv + 1)

\* the rule of worker w has thrown its ContentProcessingError
Propagated(w) == workers'[w].step = "ruleFailed"

(* C22: when an unexpected error occurs inside a rule, the error being     *)
(* classified recoverable, the rule reports it and returns the original    *)
(* content with changed = false; the error propagates only when it is not  *)
(* classified recoverable.                                                 *)
C22_RecoverableAbsorbed ==
    [][\A w \in FailingRule :
          workers'[w] # workers[w] =>
              IF ContentProcessingError.recoverable
              THEN ReturnedOriginal(w) /\ ~Propagated(w)
              ELSE Propagated(w)]_vars

(* C22, amended: the rule reports the error (one more content error on     *)
(* record) and returns the original content with changed = false while the *)
(* content errors on record, this one included, are fewer than the         *)
(* threshold; from the threshold on, or for an error that is not           *)
(* recoverable, the rule throws.  A rule that does not fail inside         *)
(* records nothing and does not throw.                                     *)
C22_AbsorbedBelowThreshold ==
    [][\A w \in 1..Len(workers) :
          (workers[w].step = "rule" /\ workers'[w] # workers[w]) =>
              IF w \notin FailingRule
              THEN errorCounts' = errorCounts /\ ~Propagated(w)
              ELSE IF /\ ContentProcessingError.recoverable
                      /\ errorCounts.content + 1 < errorThreshold
                   THEN ReturnedOriginal(w) /\ ~Propagated(w)
                   ELSE Propagated(w)]_vars

\* a rule has thrown a recoverable error at the threshold, and an earlier
\* failure of the call was absorbed
C22_Witness ==
    /\ ContentProcessingError.recoverable
    /\ \E w \in 1..Len(workers) : workers[w].step = "ruleFailed"
    /\ counts0.content = errorThreshold - 2

----------------------------------------------------------------------------
\* the first file of a call is being processed
FirstFileStarted ==
    /\ outcome = "pending" /\ batch = 0
    /\ workers # <<>>
    /\ workers[1].idx = 1 /\ workers[1].step # "done"

(* C23: every run starts from a reset session state: while the first file  *)
(* of a run is processed and before it has failed, every per-kind error    *)
(* count is zero, the processed-file count is zero and the total-file      *)
(* count is the number of files of the run; this also holds for a further  *)
(* run in the same process.                                                *)
C23_RunStartsReset ==
    (FirstFileStarted /\ workers[1].step = "read") =>
        /\ \A kind \in DOMAIN errorCounts : errorCounts[kind] = 0
        /\ processedFiles = 0
        /\ totalFiles = Len(files)

----------------------------------------------------------------------------
(* C24: the list returned by extractAllClassMatches holds no two           *)
(* overlapping [startIndex, endIndex) matches and is sorted by ascending   *)
(* startIndex, for every content and every path.                           *)
C24_MatchesDisjointSorted ==
    pmatches # <<>> =>
        LET list == pmatches[1]
        IN  \A i, j \in 1..Len(list) :
                i < j => /\ list[i].startIndex <= list[j].startIndex
                         /\ list[i].endIndex <= list[j].startIndex

----------------------------------------------------------------------------
\* the workers that take a step
Stepping == {w \in 1..Len(workers) :
                Len(workers') = Len(workers) /\ workers'[w] # workers[w]}

----------------------------------------------------------------------------
(* C26: when several chunks are processed concurrently, the current file   *)
(* recorded in the context of an error report is the path of the file      *)
(* whose operation raised the error, never another task's file and never   *)
(* empty.                                                                  *)
C26_ReportNamesFailingFile ==
    \A i \in 1..Len(errorReports) :
        errorReports[i].currentFile = <<errorReports[i].file>>

----------------------------------------------------------------------------
\* the failing operation of the step worker w takes, if it is one: the kind
\* of error it raises
FailureKind(w) ==
    LET fault == plan[CurrentFile(w)]
    IN  IF workers[w].step = "read" /\ fault = "read" THEN <<"file">>
        ELSE IF workers[w].step = "write" /\ fault = "write" THEN <<"file">>
        ELSE IF w \in FailingRule THEN <<"content">>
        ELSE <<>>

(* C27: each failure is counted once: a step in which a read, a write or a *)
(* rule application fails increases the error count of exactly one kind by *)
(* exactly one, whether the failure is then absorbed or propagated, and no *)
(* other step changes the counts.                                          *)
C27_FailureCountedOnce ==
    [][/\ Stepping = {} => errorCounts' = errorCounts
       /\ \A w \in Stepping :
             IF FailureKind(w) = <<>> THEN errorCounts' = errorCounts
             ELSE errorCounts' = Bump(errorCounts, FailureKind(w)[1])]_vars

----------------------------------------------------------------------------
(* C28: within one occurrence every original token takes part in at most   *)
(* one merge: the number of merged tokens appended is half the number of   *)
(* token positions removed, also when several candidates share one value   *)
(* ("w-4 w-4 h-4").  The output being the kept tokens followed by the      *)
(* appended ones, k is the number of kept tokens.                          *)
C28_EachTokenMergedOnce ==
    LET in  == InTokens
        out == OutTokens
    IN  rstage # "input" =>
            \E k \in 0..Len(out) :
                LET kept == SubSeq(out, 1, k)
                IN  /\ IsSubseq(kept, in)
                    /\ \A t \in Elems(out) :
                           Count(kept, t) = Min(Count(in, t), Count(out, t))
                    /\ Len(in) - k = 2 * (Len(out) - k)

----------------------------------------------------------------------------
\* the position a class name stands for: its first occurrence in the
\* snapshot, 1-based
FirstPosition(className) ==
    CHOOSE i \in 1..Len(cproc.originalClasses) :
        /\ cproc.originalClasses[i] = className
        /\ \A j \in 1..(i - 1) : cproc.originalClasses[j] # className

\* the intents recorded for position i, as indices of cintents in the order
\* of their recording
IntentsAt(i) ==
    {k \in 1..Len(cintents) :
        /\ cintents[k].operation \in {"remove", "replace"}
        /\ FirstPosition(cintents[k].original) = i}

RECURSIVE FirstIntentsFrom(_)
\* the token list in which every position from i on shows the intent
\* recorded first for it, and no intent recorded later
FirstIntentsFrom(i) ==
    IF i > Len(cproc.originalClasses) THEN <<>>
    ELSE LET at == IntentsAt(i)
             here == IF at = {} THEN <<cproc.originalClasses[i]>>
                     ELSE LET first == cintents[CHOOSE k \in at : \A m \in at : k <= m]
                          IN  IF first.operation = "remove" THEN <<>>
                              ELSE <<first.replacement>>
         IN  here \o FirstIntentsFrom(i + 1)

RECURSIVE AddedFrom(_)
\* the class names of the add intents from the k-th intent on
AddedFrom(k) ==
    IF k > Len(cintents) THEN <<>>
    ELSE (IF cintents[k].operation = "add" THEN <<cintents[k].replacement>> ELSE <<>>)
         \o AddedFrom(k + 1)

(* C29: when a removal and a replacement have been marked for one token    *)
(* position, execute applies the one marked first and ignores the other:   *)
(* the list it returns shows, for every position, the first intent         *)
(* recorded for it and nothing else, then the added classes.               *)
C29_FirstMarkWins ==
    cresult # <<>> =>
        cresult[1].newClasses = FirstIntentsFrom(1) \o AddedFrom(1)

\* a position marked for replacement and then for removal: the replacement
\* is applied
C29_Witness ==
    /\ cresult # <<>>
    /\ cproc.originalClasses = << <<"a">>, <<"b">> >>
    /\ Len(cintents) = 2
    /\ cintents[1] = [operation |-> "replace", original |-> <<"a">>,
                      replacement |-> <<"b">>]
    /\ cintents[2].operation = "remove" /\ cintents[2].original = <<"a">>
    /\ cresult[1].newClasses = << <<"b">>, <<"b">> >>

(* C30: the changed flag returned by execute is true exactly when at least *)
(* one intent (removal, replacement or addition) has been recorded since   *)
(* construction or the last reset, whether or not the returned list        *)
(* differs from the snapshot.                                              *)
C30_ChangedIffIntent ==
    cresult # <<>> => (cresult[1].changed <=> cintents # <<>>)

\* a class replaced by itself: the list is the snapshot and changed is true
C30_Witness ==
    /\ cresult # <<>>
    /\ cintents # <<>>
    /\ cresult[1].newClasses = cproc.originalClasses
    /\ cresult[1].changed

----------------------------------------------------------------------------
RECURSIVE WithoutFirst(_, _)
\* a list without the first occurrence of a class name
WithoutFirst(classes, className) ==
    IF classes = <<>> THEN <<>>
    ELSE IF Head(classes) = className THEN Tail(classes)
    ELSE <<Head(classes)>> \o WithoutFirst(Tail(classes), className)

\* one call of markForRemoval(className) seen as a step: it records one
\* removal of the first occurrence and answers true when the name is in the
\* snapshot, and records nothing and answers false when it is not
RemovalCall(className) ==
    IF Includes(cproc.originalClasses, className)
    THEN /\ cproc' = [cproc EXCEPT !.marks = Append(@,
                         [index |-> FirstPosition(className) - 1,
                          operation |-> "remove",
                          original |-> className, replacement |-> <<>>])]
         /\ cintents' = Append(cintents, [operation |-> "remove",
                                          original |-> className,
                                          replacement |-> <<>>])
    ELSE cproc' = cproc /\ cintents' = cintents

\* every mark recorded so far is a removal of one and the same class name
OnlyRemovalsOf(className) ==
    /\ cproc.marks # <<>>
    /\ \A k \in 1..Len(cproc.marks) :
          cproc.marks[k].operation = "remove" /\ cproc.marks[k].original = className

(* C31: markForRemoval(text) answers true exactly when the text occurs in  *)
(* the snapshot and always targets its first occurrence, so any number of  *)
(* calls with the same text before execute removes exactly one token, the  *)
(* first occurrence; a call that answers false records nothing.            *)
C31_RemovalIdempotent ==
    /\ [](\A className \in ClassNames :
              (cresult # <<>> /\ OnlyRemovalsOf(className)) =>
                  cresult[1].newClasses =
                      WithoutFirst(cproc.originalClasses, className) \o cproc.additions)
    /\ [][MarkForRemoval => \E className \in ClassNames : RemovalCall(className)]_vars

\* two occurrences of a name, three calls for it, one token removed
C31_Witness ==
    /\ cresult # <<>>
    /\ cproc.originalClasses = << <<"a">>, <<"b">>, <<"a">> >>
    /\ Len(cproc.marks) = 3
    /\ OnlyRemovalsOf(<<"a">>)
    /\ cresult[1].newClasses = << <<"b">>, <<"a">> >>

----------------------------------------------------------------------------
\* the marks of a processor that sit on the first occurrence of a class name
MarksOn(proc, className) ==
    {k \in 1..Len(proc.marks) :
        proc.marks[k].index = IndexOf(proc.originalClasses, className)}

\* the removal mark of a class name, as markForRemoval records it
RemovalMark(className) ==
    [index |-> IndexOf(cproc.originalClasses, className), operation |-> "remove",
     original |-> className, replacement |-> <<>>]

\* one call replacePair(class1, class2, replacement) seen as a step
PairCall(class1, class2, replacement) ==
    LET in1 == Includes(cproc.originalClasses, class1)
        in2 == Includes(cproc.originalClasses, class2)
        answer == ccalls'[Len(ccalls')]
    IN  /\ Len(ccalls') = Len(ccalls) + 1
        /\ answer.class1 = class1 /\ answer.class2 = class2
        /\ answer.replacement = replacement
        /\ answer.ok <=> (in1 /\ in2)
        /\ (in1 /\ in2) =>
              /\ cproc'.marks = cproc.marks \o <<RemovalMark(class1), RemovalMark(class2)>>
              /\ cproc'.additions = Append(cproc.additions, replacement)
        /\ ~(in1 /\ in2) =>
              /\ Count(cproc'.additions, replacement) <= Count(cproc.additions, replacement)
              /\ in1 => Cardinality(MarksOn(cproc', class1)) <= Cardinality(MarksOn(cproc, class1))
              /\ in2 => Cardinality(MarksOn(cproc', class2)) <= Cardinality(MarksOn(cproc, class2))

\* the calls so far that were answered true and name a class
MergesOf(className) ==
    {k \in 1..Len(ccalls) :
        ccalls[k].ok /\ className \in {ccalls[k].class1, ccalls[k].class2}}

\* the calls so far that were answered true and add a replacement
MergesInto(replacement) ==
    {k \in 1..Len(ccalls) : ccalls[k].ok /\ ccalls[k].replacement = replacement}

\* the k-th call found exactly one of its two classes in the snapshot
HalfPresent(k) ==
    Includes(cproc.originalClasses, ccalls[k].class1)
        # Includes(cproc.originalClasses, ccalls[k].class2)

(* C32: replacePair is all-or-nothing for its pair: the merged token is    *)
(* added only if both original tokens are present and marked for removal;  *)
(* if only one of the two is present, replacePair answers false and at     *)
(* execute neither a removal of that token nor the merged token of that    *)
(* call takes effect.                                                      *)
C32_PairAllOrNothing ==
    /\ [][ReplacePair => \E class1 \in PairNames, class2 \in PairNames,
                            replacement \in PairReplacements :
                                PairCall(class1, class2, replacement)]_vars
    /\ [](cresult # <<>> =>
            /\ \A replacement \in PairReplacements :
                  Count(cresult[1].newClasses, replacement)
                      <= Cardinality(MergesInto(replacement))
            /\ \A k \in 1..Len(ccalls) : \A className \in PairNames :
                  ( /\ HalfPresent(k)
                    /\ className \in {ccalls[k].class1, ccalls[k].class2}
                    /\ MergesOf(className) = {} )
                  => Count(cresult[1].newClasses, className)
                         = Count(cproc.originalClasses, className))

\* a call that names a present and an absent class, then execute: the
\* present class is still in the list and nothing was added
C32_Witness ==
    /\ cresult # <<>>
    /\ cproc.originalClasses = << <<"a">>, <<"b">> >>
    /\ Len(ccalls) = 1
    /\ ccalls[1].class1 = <<"a">> /\ ccalls[1].class2 = <<"c">>
    /\ ~ccalls[1].ok
    /\ cresult[1].newClasses = << <<"a">>, <<"b">> >>

(* C33: a replacePair call that fails because only one of its two tokens   *)
(* is present leaves untouched every intent recorded by earlier            *)
(* replacePair calls on the same occurrence: at execute every pair that    *)
(* was answered true is merged, its two tokens removed once each and its   *)
(* merged token added.                                                     *)
C33_EarlierPairsKept ==
    cresult # <<>> =>
        /\ \A replacement \in PairReplacements :
              Count(cresult[1].newClasses, replacement)
                  = Cardinality(MergesInto(replacement))
        /\ \A className \in PairNames :
              MergesOf(className) # {} =>
                  Count(cresult[1].newClasses, className)
                      = Count(cproc.originalClasses, className) - 1

----------------------------------------------------------------------------
\* the characters that count as white space
WhiteSpace == { " ", "\n", "\t" }

RECURSIVE PiecesBetweenWhiteSpace(_, _)
\* the non-empty pieces of a value between white space, cur being the piece
\* under construction
PiecesBetweenWhiteSpace(value, cur) ==
    IF value = <<>> THEN (IF cur = <<>> THEN <<>> ELSE <<cur>>)
    ELSE IF Head(value) \in WhiteSpace
         THEN (IF cur = <<>> THEN <<>> ELSE <<cur>>)
              \o PiecesBetweenWhiteSpace(Tail(value), <<>>)
         ELSE PiecesBetweenWhiteSpace(Tail(value), Append(cur, Head(value)))

(* C34: the token list of an occurrence is the attribute value split on    *)
(* every kind of white space (space, tab, newline), one token per          *)
(* non-empty piece: no token contains a white-space character, and two     *)
(* names separated only by a newline or a tab are two tokens.              *)
C34_SplitOnAnyWhiteSpace ==
    cstring # <<>> =>
        cproc.originalClasses = PiecesBetweenWhiteSpace(cstring[1], <<>>)

----------------------------------------------------------------------------
\* the syntax families of the registry
Families == {PATTERN_MATCHERS[k].framework : k \in 1..Len(PATTERN_MATCHERS)}

\* every match a matcher of the path finds in the content
Candidates ==
    LET ks == getPatternMatchersForFile(pfile)
    IN  UNION { {exec(pcontent, ks[i], 1)[j] :
                    j \in 1..Len(exec(pcontent, ks[i], 1))} : i \in 1..Len(ks) }

\* a candidate that overlaps a returned match and is not on the list itself
DroppedFor(c, m) ==
    /\ overlapping(c.startIndex, c.endIndex, m)
    /\ \A e \in 1..Len(pmatches[1]) :
          <<pmatches[1][e].startIndex, pmatches[1][e].endIndex>>
              # <<c.startIndex, c.endIndex>>

(* C35: the specificity ranking of the syntax families is total: no two    *)
(* distinct families have the same specificity, so of two overlapping      *)
(* candidate matches the one that survives is the one of the strictly      *)
(* higher rank, whatever the order in which the matchers are run.          *)
C35_SpecificityTotal ==
    /\ \A f, g \in Families :
          f # g => getPatternSpecificity(f) # getPatternSpecificity(g)
    /\ pmatches # <<>> =>
          \A c \in Candidates : \A e \in 1..Len(pmatches[1]) :
              DroppedFor(c, pmatches[1][e]) =>
                  getPatternSpecificity(PATTERN_MATCHERS[pmatches[1][e].matcher].framework)
                      > getPatternSpecificity(PATTERN_MATCHERS[c.matcher].framework)

----------------------------------------------------------------------------
\* Object.values(errorCounts).reduce((sum, count) => sum + count, 0)
totalErrors ==
    errorCounts.file + errorCounts.content + errorCounts.git + errorCounts.config

\* successRate of generateReport in tenths of a percent, as toFixed(1) rounds
\* it; 0 when totalFiles is 0
successRate ==
    IF totalFiles > 0
    THEN LET num == (processedFiles - totalErrors) * 1000
         IN  IF num >= 0 THEN (2 * num + totalFiles) \div (2 * totalFiles)
             ELSE 0 - ((2 * (0 - num) + totalFiles) \div (2 * totalFiles))
    ELSE 0

(* C36: at the end of a run over N files in a session initialised to N,    *)
(* the number of recorded errors does not exceed the processed-file count, *)
(* so the reported success rate lies between 0 and 100 percent.            *)
C36_SuccessRateInRange ==
    Returned =>
        /\ totalErrors <= processedFiles
        /\ successRate >= 0 /\ successRate <= 1000

----------------------------------------------------------------------------
\* the WorkerResults a finishing batch hands over, in the order in which
\* their ProcessingResults are pushed
Handed == Flatten(workers)

(* C37: processFiles returns its results in input order: for every         *)
(* concurrency and chunk-size setting the i-th result is the one made from *)
(* the WorkerResult of the i-th input path, in whatever order the file     *)
(* tasks of a batch finish.                                                *)
C37_ResultsInInputOrder ==
    /\ [](mode = "parallel" =>
             /\ Len(results) <= Len(files)
             /\ Returned => Len(results) = Len(files)
             /\ \A w \in 1..Len(workers) : \A j \in 1..Len(workers[w].results) :
                    workers[w].results[j].filePath = workers[w].chunk[j])
    /\ [][FinishBatch =>
             LET flat == Handed
             IN  /\ Len(results') = Len(results) + Len(flat)
                 /\ \A k \in 1..Len(flat) :
                       /\ flat[k].filePath = files[Len(results) + k]
                       /\ results'[Len(results) + k] = ParallelResult(flat[k])
                 /\ SubSeq(results', 1, Len(results)) = results]_vars

\* two chunks of one batch whose reads both fail, the second path's first:
\* the error that reaches the threshold is the first path's, and the failed
\* result is the first of the list
C37_Witness ==
    /\ Returned
    /\ mode = "parallel" /\ maxWorkers = 2 /\ chunkSize = 1
    /\ plan = <<"read", "read", "none">>
    /\ Len(results) = 3
    /\ ~results[1].success
    /\ results[2].success /\ results[3].success

----------------------------------------------------------------------------
(* C38: for every rule and every content, the changed flag of the result   *)
(* tells exactly whether the text differs: with changed = false the        *)
(* returned content is the input, with changed = true it is not.  This     *)
(* holds for the first application and for the application to its output.  *)
C38_ChangedIffTextDiffers ==
    /\ rstage \in {"once", "twice"} => (rout1.changed <=> rout1.newContent # rin)
    /\ rstage = "twice" => (rout2.changed <=> rout2.newContent # rout1.newContent)

\* a content that the rule rewrites and whose output it rewrites again, and
\* one that it returns as it is
C38_Witness ==
    /\ rstage = "twice"
    /\ rout1.changed /\ rout1.newContent # rin
    /\ rout2.changed /\ rout2.newContent # rout1.newContent

====
